---------------------------- MODULE Spec2Model ----------------------------
(***************************************************************************)
(* Model of the production analytics routes (server/routes/analytics.js):  *)
(* the stoppage submission (POST /stoppage), the production assignment     *)
(* (POST /production-assignment), the 7-day production timeline            *)
(* (GET /production-timeline/:machineId) and the machine statistics        *)
(* (GET /machine-stats/:machineId) over the store of ProductionRecord      *)
(* documents.                                                              *)
(*                                                                         *)
(* Time is the JavaScript time value: milliseconds since the epoch, UTC.   *)
(* A calendar date string "YYYY-MM-DD" is modelled by its day number since *)
(* the epoch, a string such as the SAP notification number by the sequence *)
(* of its characters.  Each request handler is one atomic action taken at  *)
(* the instant `now`; the document store keeps the object graph the        *)
(* handler saved.  The specification of the concurrent writes splits the   *)
(* two write handlers at their awaits, one action per continuation.        *)
(***************************************************************************)
EXTENDS Integers, Sequences, FiniteSets, TLC

VARIABLES
    zone,       \* the time zone of the server process (fixed at start)
    config,     \* the shift list of the Config document
    now,        \* the wall clock, what new Date() returns
    store,      \* the ProductionRecord collection, in insertion order
    nextId,     \* the next _id a stored stoppage gets
    handled,    \* the number of writes handled so far
    last,       \* the last request handled and what it answered
    timeline,   \* the body of the last production-timeline response
    stats,      \* the body of the last machine-stats response
    inflight    \* the write requests in flight: where each handler stands

vars == <<zone, config, now, store, nextId, handled, last, timeline, stats,
          inflight>>

---------------------------------------------------------------------------
(* Program constants *)

MsPerMinute == 60000
MsPerHour == 60 * MsPerMinute
MsPerDay == 24 * MsPerHour
HoursPerDay == 24
WindowDays == 7

(* Absent values (JavaScript undefined) *)
Absent == <<"<undefined>">>     \* an absent string (a sequence no string is)
NoText == "<undefined>"         \* an absent description
NoTime == -1                    \* an absent Date
NoId == 0                       \* an absent _id / pendingStoppageId
NoStatus == "<undefined>"       \* a slot that carries no status
NoRef == "<undefined>"          \* an absent operator / mold reference
NoRecord == [machineId |-> "<none>"]

---------------------------------------------------------------------------
(* Bounds of the model *)

MaxRequests == 3        \* writes handled in one run
MaxTicks == 1           \* steps the clock takes

Machines == {"M1"}
Hours == {8}
Reasons == {"breakdown", "other"}
Durations == {10}
Descriptions == {"jam"}

---------------------------------------------------------------------------
(* Time zones: local time = UTC + offset, with at most one offset          *)
(* transition (before -> after at the instant `at`).                       *)

Offset(z, t) == IF t < z.at THEN z.before ELSE z.after

ToLocal(z, t) == t + Offset(z, t)

(* Local wall time to a time value.  A wall time that is skipped or        *)
(* repeated at the transition is read with the offset before it.           *)
FromLocal(z, w) ==
    LET t1 == w - z.before
        t2 == w - z.after
    IN  IF t1 < z.at THEN t1
        ELSE IF t2 >= z.at THEN t2
        ELSE t1

(* d.setDate(d.getDate() + k): the local day moved by k, the time within
   the day kept *)
SetDate(z, t, k) ==
    LET w == ToLocal(z, t)
    IN  FromLocal(z, ((w \div MsPerDay) + k) * MsPerDay + (w % MsPerDay))

(* d.setUTCHours(0, 0, 0, 0) *)
UTCMidnight(t) == (t \div MsPerDay) * MsPerDay

(* toISOString().split('T')[0]: the UTC calendar date, as a day number *)
ISODate(t) == t \div MsPerDay

(* toDateString(): the local calendar date, as a day number *)
DateString(z, t) == ToLocal(z, t) \div MsPerDay

(* new Date(date + 'T00:00:00.000Z') *)
DateUTC(date) == date * MsPerDay

(* new Date(`${date}T${hh}:00:00`): no zone designator, so local time *)
LocalHourStart(z, date, hour) == FromLocal(z, date * MsPerDay + hour * MsPerHour)

---------------------------------------------------------------------------
(* Strings *)

Digits == {"0", "1", "2", "3", "4", "5", "6", "7", "8", "9"}
WhiteSpace == {" "}

RECURSIVE TrimStart(_)
TrimStart(s) ==
    IF s # <<>> /\ Head(s) \in WhiteSpace THEN TrimStart(Tail(s)) ELSE s

RECURSIVE TrimEnd(_)
TrimEnd(s) ==
    IF s # <<>> /\ s[Len(s)] \in WhiteSpace
    THEN TrimEnd(SubSeq(s, 1, Len(s) - 1)) ELSE s

(* String.prototype.trim *)
Trim(s) == TrimEnd(TrimStart(s))

(* /^\d+$/.test(s) *)
OnlyDigits(s) == Len(s) > 0 /\ \A i \in 1..Len(s) : s[i] \in Digits

(* a string in a condition: undefined and "" are falsy *)
Truthy(s) == s # Absent /\ s # <<>>


---------------------------------------------------------------------------
(* Documents *)

(* new ProductionRecord({ machineId, startTime, hourlyData: [] }) *)
NewProductionRecord(machineId, date) ==
    [machineId |-> machineId, startTime |-> DateUTC(date), hourlyData |-> <<>>,
     unitsProduced |-> 0, defectiveUnits |-> 0, operatorId |-> NoRef,
     moldId |-> NoRef]

(* the hour slot the stoppage route creates *)
NewStoppageHourData(hour) ==
    [hour |-> hour, unitsProduced |-> 0, defectiveUnits |-> 0,
     status |-> "stoppage", runningMinutes |-> 0, stoppageMinutes |-> 0,
     stoppages |-> <<>>, operatorId |-> NoRef, moldId |-> NoRef]

(* stoppages.reduce((sum, s) => sum + (s.duration || 0), 0) *)
RECURSIVE SumDurations(_)
SumDurations(stoppages) ==
    IF stoppages = <<>> THEN 0
    ELSE Head(stoppages).duration + SumDurations(Tail(stoppages))

(* Array.prototype.findIndex / find: the first of the matching positions
   (1-based), 0 when nothing matches *)
FirstIndex(matching) ==
    IF matching = {} THEN 0
    ELSE CHOOSE i \in matching : \A j \in matching : i <= j

(* ProductionRecord.findOne({ machineId, startTime: { $gte, $lt } }) *)
FindOneIndex(st, machineId, date) ==
    LET Match(r) == /\ r.machineId = machineId
                    /\ r.startTime >= DateUTC(date)
                    /\ r.startTime < DateUTC(date) + MsPerDay - 1
    IN  FirstIndex({ i \in DOMAIN st : Match(st[i]) })

(* variant: the slot of the hour is never found *)
HourIndexNotFound(record, hour) == 0

(* productionRecord.hourlyData.find(h => h.hour === hour) *)
HourIndex(record, hour) ==
    LET Match(h) == h.hour = hour
    IN  FirstIndex({ i \in DOMAIN record.hourlyData :
                        Match(record.hourlyData[i]) })

---------------------------------------------------------------------------
(* POST /stoppage *)

(* the two validations of the SAP notification number *)
SapMissing(req) ==
    /\ req.reason = "breakdown"
    /\ (~Truthy(req.sapNotificationNumber)
            \/ Trim(req.sapNotificationNumber) = <<>>)

SapMalformed(req) ==
    /\ req.reason = "breakdown"
    /\ Truthy(req.sapNotificationNumber)
    /\ ~OnlyDigits(Trim(req.sapNotificationNumber))

(* hourData.stoppages.findIndex(s => (s._id && s._id.toString() ===
   pendingStoppageId) || s.reason === 'unclassified') *)
StoppageIndex(stoppages, pendingStoppageId) ==
    LET Match(s) == \/ (s.id # NoId /\ s.id = pendingStoppageId)
                    \/ s.reason = "unclassified"
    IN  FirstIndex({ i \in DOMAIN stoppages : Match(stoppages[i]) })

(* Math.floor((new Date() - pendingStoppage.startTime) / (1000 * 60)) *)
ActualDuration(t, startTime) == (t - startTime) \div MsPerMinute

(* the sapNotificationNumber a stoppage of this request stores *)
StoredSap(req, old) ==
    IF req.reason = "breakdown" THEN req.sapNotificationNumber ELSE old

(* variant: the finalized stoppage takes the duration the request sent *)
FinalizeKeepsEstimate(s, req, t) ==
    [s EXCEPT !.reason = req.reason,
              !.description = req.description,
              !.endTime = t,
              !.duration = req.duration,
              !.sapNotificationNumber = StoredSap(req, @),
              !.isPending = FALSE,
              !.isClassified = TRUE]

(* variant: the finalized stoppage is classified but still marked pending *)
FinalizeStillPending(s, req, t) ==
    [s EXCEPT !.reason = req.reason,
              !.description = req.description,
              !.endTime = t,
              !.duration = ActualDuration(t, s.startTime),
              !.sapNotificationNumber = StoredSap(req, @),
              !.isClassified = TRUE]

(* update the existing pending stoppage in place *)
FinalizeStoppage(s, req, t) ==
    [s EXCEPT !.reason = req.reason,
              !.description = req.description,
              !.endTime = t,
              !.duration = ActualDuration(t, s.startTime),
              !.sapNotificationNumber = StoredSap(req, @),
              !.isPending = FALSE,
              !.isClassified = TRUE]

(* const newStoppage = { reason, description, startTime, endTime, duration,
   isPending: false, isClassified: true } *)
NewStoppage(z, id, req) ==
    LET stoppageStart == LocalHourStart(z, req.date, req.hour)
    IN  [id |-> id,
         reason |-> req.reason,
         description |-> req.description,
         startTime |-> stoppageStart,
         endTime |-> stoppageStart + req.duration * 60 * 1000,
         duration |-> req.duration,
         isPending |-> FALSE,
         isClassified |-> TRUE,
         sapNotificationNumber |-> StoredSap(req, Absent)]

(* which of the three branches the request takes on the slot *)
StoppageBranch(hourData, req) ==
    IF req.pendingStoppageId # NoId
    THEN IF StoppageIndex(hourData.stoppages, req.pendingStoppageId) > 0
         THEN "finalize" ELSE "synthesize"
    ELSE "append"

(* the slot after the request: the mutation of the stoppage list, the
   recomputation of stoppageMinutes where the code has it, the status *)
UpdateHourData(hourData, z, t, id, req) ==
    LET branch == StoppageBranch(hourData, req)
        idx == StoppageIndex(hourData.stoppages, req.pendingStoppageId)
        pushed == Append(hourData.stoppages, NewStoppage(z, id, req))
        after ==
            CASE branch = "finalize" ->
                    [hourData EXCEPT
                        !.stoppages[idx] = FinalizeStoppage(@, req, t)]
              [] branch = "synthesize" ->
                    [hourData EXCEPT !.stoppages = pushed]
              [] OTHER ->
                    [hourData EXCEPT !.stoppages = pushed,
                                     !.stoppageMinutes = SumDurations(pushed)]
    IN  [after EXCEPT !.status = "stoppage"]

(* the record after the request, with the slot found or created *)
RecordStoppage(record, z, t, id, req) ==
    LET found == HourIndex(record, req.hour)
        hourlyData == IF found > 0 THEN record.hourlyData
                      ELSE Append(record.hourlyData,
                                  NewStoppageHourData(req.hour))
        at == IF found > 0 THEN found ELSE Len(hourlyData)
    IN  [record EXCEPT !.hourlyData =
            [hourlyData EXCEPT ![at] = UpdateHourData(@, z, t, id, req)]]

(* variant: save() merges: the slots of the stored version that the
   document lacks are kept *)
SaveKeepsStoredSlots(st, index, record) ==
    IF index > 0
    THEN LET kept == SelectSeq(st[index].hourlyData,
                        LAMBDA slot : HourIndex(record, slot.hour) = 0)
         IN  [st EXCEPT ![index] =
                [record EXCEPT !.hourlyData = @ \o kept]]
    ELSE Append(st, record)

(* productionRecord.save(): the document replaces its stored version, a new
   document is inserted *)
Save(st, index, record) ==
    IF index > 0 THEN [st EXCEPT ![index] = record] ELSE Append(st, record)

(* what sendBreakdownNotification can do: deliver, return because no
   recipients are configured, throw from the transport, or never be reached
   because Machine.findById threw while its argument was built *)
NotifyOutcomes == {"sent", "no-recipients", "send-failed", "lookup-failed"}
NotifyFailures == {"send-failed", "lookup-failed"}

(* variant: no catch around the notification, so its failure reaches the
   handler's own catch: 500, and io.emit is never reached *)
AfterSaveEscalates(req, notify) ==
    IF req.reason = "breakdown" /\ notify \in NotifyFailures
    THEN [status |-> 500, events |-> <<>>, notify |-> notify]
    ELSE [status |-> 201, events |-> <<"stoppage-added">>,
          notify |-> IF req.reason = "breakdown" THEN notify ELSE "none"]

(* the handler after save(): the try/catch around the notification, then
   io.emit('stoppage-added') and res.status(201) *)
AfterSave(req, notify) ==
    [status |-> 201, events |-> <<"stoppage-added">>,
     notify |-> IF req.reason = "breakdown" THEN notify ELSE "none"]

---------------------------------------------------------------------------
(* POST /production-assignment *)

NaN == -1           \* what parseInt answers when there is no number to read
NoUnits == -1       \* an absent defectiveUnits (undefined)
NoUser == [username |-> <<>>, id |-> NoRef]

DigitChars == <<"0", "1", "2", "3", "4", "5", "6", "7", "8", "9">>
HexChars == Digits \cup {"a", "b", "c", "d", "e", "f",
                         "A", "B", "C", "D", "E", "F"}

(* the string of 24 times the character c *)
Hex24(c) == [i \in 1..24 |-> c]

(* the ObjectIds the model knows, each with the string that writes it *)
ObjectIds ==
    { [id |-> "U1", hex |-> Hex24("a")],
      [id |-> "MOLD1", hex |-> Hex24("b")],
      [id |-> "MOLD2", hex |-> Hex24("c")] }

(* the users the identity lookup knows *)
UserDirectory == { [username |-> <<"a", "l", "i">>, id |-> "U1"] }

(* mongoose.Types.ObjectId.isValid(s) for a string: 12 characters, or 24
   hexadecimal characters *)
ObjectIdValid(s) ==
    \/ Len(s) = 12
    \/ Len(s) = 24 /\ \A i \in 1..24 : s[i] \in HexChars

(* new mongoose.Types.ObjectId(s) *)
ObjectId(s) ==
    IF \E o \in ObjectIds : o.hex = s
    THEN (CHOOSE o \in ObjectIds : o.hex = s).id
    ELSE "<other ObjectId>"

(* User.findOne({ username }) *)
FindUser(username) ==
    IF \E u \in UserDirectory : u.username = username
    THEN CHOOSE u \in UserDirectory : u.username = username
    ELSE NoUser

(* validOperatorId: the reference itself, the _id of the user of that name,
   nothing when no operator was sent; not valid when the name is unknown *)
ResolveOperator(operatorId) ==
    IF Truthy(operatorId) /\ Trim(operatorId) # <<>>
    THEN IF ObjectIdValid(operatorId)
         THEN [valid |-> TRUE, id |-> ObjectId(operatorId)]
         ELSE IF FindUser(operatorId) # NoUser
              THEN [valid |-> TRUE, id |-> FindUser(operatorId).id]
              ELSE [valid |-> FALSE, id |-> NoRef]
    ELSE [valid |-> TRUE, id |-> NoRef]

(* validMoldId *)
ResolveMold(moldId) ==
    IF Truthy(moldId) /\ Trim(moldId) # <<>>
    THEN IF ObjectIdValid(moldId)
         THEN [valid |-> TRUE, id |-> ObjectId(moldId)]
         ELSE [valid |-> FALSE, id |-> NoRef]
    ELSE [valid |-> TRUE, id |-> NoRef]

(* variant: the mold is validated before the operator *)
AssignmentErrorMoldFirst(req) ==
    IF ~ResolveMold(req.moldId).valid THEN "Invalid mold ID specified"
    ELSE IF ~ResolveOperator(req.operatorId).valid
    THEN "Invalid operator specified"
    ELSE "none"

(* the message of the 400 the validation answers, "none" when it passes:
   the operator first, then the mold *)
AssignmentError(req) ==
    IF ~ResolveOperator(req.operatorId).valid
    THEN "Invalid operator specified"
    ELSE IF ~ResolveMold(req.moldId).valid THEN "Invalid mold ID specified"
    ELSE "none"

(* s.split(':')[0] *)
RECURSIVE BeforeColon(_)
BeforeColon(s) ==
    IF s = <<>> \/ Head(s) = ":" THEN <<>>
    ELSE <<Head(s)>> \o BeforeColon(Tail(s))

DigitValue(c) == CHOOSE n \in 0..9 : DigitChars[n + 1] = c

RECURSIVE ParseDigits(_, _)
ParseDigits(s, acc) ==
    IF s # <<>> /\ Head(s) \in Digits
    THEN ParseDigits(Tail(s), 10 * acc + DigitValue(Head(s)))
    ELSE acc

(* parseInt(s) of an unsigned string: the number its leading digits write,
   NaN when it does not start with a digit *)
ParseInt(s) ==
    LET t == TrimStart(s)
    IN  IF t # <<>> /\ Head(t) \in Digits THEN ParseDigits(t, 0) ELSE NaN

(* a <= b and a < b on numbers: a comparison with NaN is false *)
LessEq(a, b) == a # NaN /\ b # NaN /\ a <= b
Less(a, b) == a # NaN /\ b # NaN /\ a < b

(* the predicate of shifts.find *)
ShiftContains(s, hour) ==
    LET startHour == ParseInt(BeforeColon(s.startTime))
        endHour == ParseInt(BeforeColon(s.endTime))
    IN  IF LessEq(startHour, endHour)
        THEN LessEq(startHour, hour) /\ Less(hour, endHour)
        ELSE LessEq(startHour, hour) \/ Less(hour, endHour)

(* variant: the loop runs up to the end hour included *)
HourRangeInclusive(from, to) == [i \in 1..(to - from + 1) |-> from + i - 1]

(* for (let h = from; h < to; h++) hoursToUpdate.push(h) *)
HourRange(from, to) == [i \in 1..(to - from) |-> from + i - 1]

(* variant: a shift that crosses midnight is expanded to all of its hours *)
ShiftHoursBothDays(shift, hour) ==
    LET startHour == ParseInt(BeforeColon(shift.startTime))
        endHour == ParseInt(BeforeColon(shift.endTime))
    IN  IF LessEq(startHour, endHour) THEN HourRange(startHour, endHour)
        ELSE HourRange(startHour, HoursPerDay) \o HourRange(0, endHour)

(* the hours of the shift found, seen from the requested hour *)
ShiftHours(shift, hour) ==
    LET startHour == ParseInt(BeforeColon(shift.startTime))
        endHour == ParseInt(BeforeColon(shift.endTime))
    IN  IF LessEq(startHour, endHour) THEN HourRange(startHour, endHour)
        ELSE IF LessEq(startHour, hour) THEN HourRange(startHour, HoursPerDay)
        ELSE IF Less(hour, endHour) THEN HourRange(0, endHour)
        ELSE <<>>

(* hoursToUpdate *)
HoursToUpdate(shifts, hour, applyToShift) ==
    LET i == FirstIndex({ k \in DOMAIN shifts : ShiftContains(shifts[k], hour) })
    IN  IF applyToShift /\ i > 0 THEN ShiftHours(shifts[i], hour)
        ELSE <<hour>>

(* variant: a new slot is created without the operator and the mold *)
NewAssignmentHourDataUnassigned(targetHour, validOperatorId, validMoldId) ==
    [hour |-> targetHour, unitsProduced |-> 0, defectiveUnits |-> 0,
     status |-> "inactive", runningMinutes |-> 0, stoppageMinutes |-> 0,
     stoppages |-> <<>>, operatorId |-> NoRef, moldId |-> NoRef]

(* the hour slot the assignment route creates *)
NewAssignmentHourData(targetHour, validOperatorId, validMoldId) ==
    [hour |-> targetHour, unitsProduced |-> 0, defectiveUnits |-> 0,
     status |-> "inactive", runningMinutes |-> 0, stoppageMinutes |-> 0,
     stoppages |-> <<>>, operatorId |-> validOperatorId,
     moldId |-> validMoldId]

(* variant: the defective units are written on every hour of the set *)
SetDefectiveUnitsAllHours(hourData, targetHour, req) ==
    IF req.defectiveUnits # NoUnits
    THEN [hourData EXCEPT !.defectiveUnits = req.defectiveUnits]
    ELSE hourData

(* only update defective units for the original hour *)
SetDefectiveUnits(hourData, targetHour, req) ==
    IF targetHour = req.hour /\ req.defectiveUnits # NoUnits
    THEN [hourData EXCEPT !.defectiveUnits = req.defectiveUnits]
    ELSE hourData

(* the loop over hoursToUpdate: find or create the slot, then the
   defective units *)
RECURSIVE UpdateHours(_, _, _, _, _)
UpdateHours(hourlyData, hours, req, validOperatorId, validMoldId) ==
    IF hours = <<>> THEN hourlyData
    ELSE LET targetHour == Head(hours)
             found == FirstIndex({ i \in DOMAIN hourlyData :
                                     hourlyData[i].hour = targetHour })
             withSlot ==
                IF found > 0 THEN hourlyData
                ELSE Append(hourlyData,
                            NewAssignmentHourData(targetHour, validOperatorId,
                                                  validMoldId))
             at == IF found > 0 THEN found ELSE Len(withSlot)
         IN  UpdateHours(
                [withSlot EXCEPT ![at] = SetDefectiveUnits(@, targetHour, req)],
                Tail(hours), req, validOperatorId, validMoldId)

(* hourlyData.reduce((sum, h) => sum + (h.defectiveUnits || 0), 0) *)
RECURSIVE SumDefectiveUnits(_)
SumDefectiveUnits(hourlyData) ==
    IF hourlyData = <<>> THEN 0
    ELSE Head(hourlyData).defectiveUnits + SumDefectiveUnits(Tail(hourlyData))

(* variant: the rollup takes the defective units of the first slot alone *)
TotalDefectiveUnitsFirstSlot(hourlyData) ==
    IF hourlyData = <<>> THEN 0 ELSE Head(hourlyData).defectiveUnits

(* update total defective units *)
TotalDefectiveUnits(hourlyData) == SumDefectiveUnits(hourlyData)

(* the record after the request *)
RecordAssignment(record, shifts, req) ==
    LET hoursToUpdate == HoursToUpdate(shifts, req.hour, req.applyToShift)
        hourlyData == UpdateHours(record.hourlyData, hoursToUpdate, req,
                                  ResolveOperator(req.operatorId).id,
                                  ResolveMold(req.moldId).id)
    IN  [record EXCEPT !.hourlyData = hourlyData,
                       !.defectiveUnits = TotalDefectiveUnits(hourlyData)]

(* variant: the event is emitted before the record is saved *)
AfterAssignmentEmitsFirst(saves) ==
    [status |-> IF saves THEN 200 ELSE 500,
     events |-> <<"production-assignment-updated">>]

(* the handler from save() on: a save that throws is answered 500 and
   nothing is emitted; otherwise the event goes out, then the answer *)
AfterAssignment(saves) ==
    IF saves
    THEN [status |-> 200, events |-> <<"production-assignment-updated">>]
    ELSE [status |-> 500, events |-> <<>>]

---------------------------------------------------------------------------
(* GET /production-timeline/:machineId *)

(* the days the loop visits: for (d = startDate; d <= endDate;
   d.setDate(d.getDate() + 1)) *)
RECURSIVE TimelineDays(_, _, _)
TimelineDays(z, d, endDate) ==
    IF d <= endDate
    THEN <<d>> \o TimelineDays(z, SetDate(z, d, 1), endDate)
    ELSE <<>>

(* ProductionRecord.find({ machineId, startTime: { $gte: startDate,
   $lte: endDate } }) *)
FindRecords(st, machineId, startDate, endDate) ==
    LET InRange(r) == /\ r.machineId = machineId
                      /\ r.startTime >= startDate
                      /\ r.startTime <= endDate
    IN  SelectSeq(st, InRange)

(* productionRecords.find(record => recordDate.toDateString() ===
   dayStart.toDateString()) *)
DayRecord(productionRecords, z, dayStart) ==
    LET SameDay(record) ==
            DateString(z, record.startTime) = DateString(z, dayStart)
        i == FirstIndex({ k \in DOMAIN productionRecords :
                            SameDay(productionRecords[k]) })
    IN  IF i > 0 THEN productionRecords[i] ELSE NoRecord

(* variant: equal minutes already count as a stoppage *)
DerivedStatusAtLeast(runningMinutes, stoppageMinutes) ==
    IF runningMinutes > 0
    THEN IF stoppageMinutes >= runningMinutes THEN "stoppage" ELSE "running"
    ELSE IF stoppageMinutes > 0 THEN "stoppage"
    ELSE "inactive"

(* the status the hour loop derives from the minutes *)
DerivedStatus(runningMinutes, stoppageMinutes) ==
    IF runningMinutes > 0
    THEN IF stoppageMinutes > runningMinutes THEN "stoppage" ELSE "running"
    ELSE IF stoppageMinutes > 0 THEN "stoppage"
    ELSE "inactive"

(* a || b on references and statuses: an absent left side gives the right *)
OrElse(a, b) == IF a \in {NoStatus, NoRef} THEN b ELSE a

(* one element of dayData.hours *)
HourEntry(dayRecord, hour) ==
    LET found == IF dayRecord = NoRecord THEN 0 ELSE HourIndex(dayRecord, hour)
        dayOperator == IF dayRecord = NoRecord THEN NoRef
                       ELSE dayRecord.operatorId
        dayMold == IF dayRecord = NoRecord THEN NoRef ELSE dayRecord.moldId
    IN  IF found = 0
        THEN [hour |-> hour, unitsProduced |-> 0, defectiveUnits |-> 0,
              status |-> DerivedStatus(0, 0), operator |-> dayOperator,
              mold |-> dayMold, stoppages |-> <<>>, runningMinutes |-> 0,
              stoppageMinutes |-> 0]
        ELSE LET hourData == dayRecord.hourlyData[found]
                 runningMinutes == hourData.runningMinutes
                 stoppageMinutes == SumDurations(hourData.stoppages)
             IN  [hour |-> hour,
                  unitsProduced |-> hourData.unitsProduced,
                  defectiveUnits |-> hourData.defectiveUnits,
                  status |-> OrElse(hourData.status,
                               DerivedStatus(runningMinutes, stoppageMinutes)),
                  operator |-> OrElse(hourData.operatorId, dayOperator),
                  mold |-> OrElse(hourData.moldId, dayMold),
                  stoppages |-> hourData.stoppages,
                  runningMinutes |-> runningMinutes,
                  stoppageMinutes |-> stoppageMinutes]

(* one element of the timeline *)
DayData(productionRecords, z, d) ==
    LET dayStart == UTCMidnight(d)
        dayRecord == DayRecord(productionRecords, z, dayStart)
    IN  [date |-> ISODate(dayStart),
         hours |-> [i \in 1..HoursPerDay |-> HourEntry(dayRecord, i - 1)]]

(* the first instant of the window: startDate.setDate(getDate() - 7) *)
WindowStart(z, t) == SetDate(z, t, -WindowDays)

(* the response body *)
ProductionTimeline(st, z, t, machineId) ==
    LET endDate == t
        startDate == WindowStart(z, t)
        productionRecords == FindRecords(st, machineId, startDate, endDate)
        days == TimelineDays(z, startDate, endDate)
    IN  [i \in 1..Len(days) |-> DayData(productionRecords, z, days[i])]

---------------------------------------------------------------------------
(* Access to a machine: the check both read routes start with *)

NoMachine == [id |-> "<none>", departmentId |-> NoRef, status |-> NoStatus]

(* the Machine collection, departmentId populated *)
MachineDirectory ==
    { [id |-> "M1", departmentId |-> "D1", status |-> "running"],
      [id |-> "M2", departmentId |-> "D2", status |-> "stopped"] }

(* Machine.findById(machineId).populate('departmentId') *)
FindMachine(machineId) ==
    IF \E m \in MachineDirectory : m.id = machineId
    THEN CHOOSE m \in MachineDirectory : m.id = machineId
    ELSE NoMachine

(* variant: any requester of another department is denied *)
AccessDeniedAnyRole(user, machine) ==
    user.departmentId # machine.departmentId

(* req.user.role === 'operator' && req.user.departmentId?._id.toString()
   !== machine.departmentId._id.toString() *)
AccessDenied(user, machine) ==
    /\ user.role = "operator"
    /\ user.departmentId # machine.departmentId

(* the answer of the check: 404, 403, or 0 when the handler goes on *)
CheckAccess(user, machineId) ==
    IF FindMachine(machineId) = NoMachine THEN 404
    ELSE IF AccessDenied(user, FindMachine(machineId)) THEN 403
    ELSE 0

---------------------------------------------------------------------------
(* GET /machine-stats/:machineId *)

NoPeriod == "<undefined>"

(* the Mold collection *)
MoldDirectory ==
    { [id |-> "MOLD1", productionCapacityPerHour |-> 120],
      [id |-> "MOLD2", productionCapacityPerHour |-> 100] }

(* hourData.moldId.productionCapacityPerHour after populate; 0 where the
   condition on it is falsy: no mold assigned, or no such mold *)
Capacity(moldId) ==
    IF \E m \in MoldDirectory : m.id = moldId
    THEN (CHOOSE m \in MoldDirectory : m.id = moldId).productionCapacityPerHour
    ELSE 0

(* d.setHours(d.getHours() + k): the same local wall time, k hours later *)
SetHours(z, t, k) == FromLocal(z, ToLocal(z, t) + k * MsPerHour)

(* const { period = '24h' } = req.query, then startDate *)
StatsStart(z, t, period) ==
    LET p == IF period = NoPeriod THEN "24h" ELSE period
    IN  CASE p = "24h" -> SetHours(z, t, -24)
          [] p = "7d" -> SetDate(z, t, -7)
          [] p = "30d" -> SetDate(z, t, -30)
          [] OTHER -> t

RECURSIVE GCD(_, _)
GCD(a, b) == IF b = 0 THEN a ELSE GCD(b, a % b)

(* a quotient num / den, kept exact and in lowest terms *)
Ratio(num, den) ==
    LET g == GCD(IF num < 0 THEN -num ELSE num, den)
    IN  IF den = 0 \/ g = 0 THEN [num |-> num, den |-> den]
        ELSE [num |-> num \div g, den |-> den \div g]
Times(a, b) == Ratio(a.num * b.num, a.den * b.den)

(* Math.round(x * scale): the nearest integer, a half going up; not a number
   when x is a division by zero *)
RoundScaled(x, scale) ==
    IF x.den = 0 THEN NaN
    ELSE (2 * scale * x.num + x.den) \div (2 * x.den)

RECURSIVE SumSeq(_)
SumSeq(numbers) ==
    IF numbers = <<>> THEN 0 ELSE Head(numbers) + SumSeq(Tail(numbers))

(* every hourData of every record, in the order the forEach loops visit *)
RECURSIVE AllHourData(_)
AllHourData(records) ==
    IF records = <<>> THEN <<>>
    ELSE Head(records).hourlyData \o AllHourData(Tail(records))

(* the breakdown stoppages of the slots *)
RECURSIVE AllBreakdowns(_)
AllBreakdowns(slots) ==
    LET IsBreakdown(stoppage) == stoppage.reason = "breakdown"
    IN  IF slots = <<>> THEN <<>>
        ELSE SelectSeq(Head(slots).stoppages, IsBreakdown)
                \o AllBreakdowns(Tail(slots))

(* variant: expected units from the running time alone *)
ExpectedUnits60RunningTime(slots) ==
    SumSeq([i \in DOMAIN slots |->
                Capacity(slots[i].moldId) * slots[i].runningMinutes])

(* totalExpectedUnits, in sixtieths of a unit: the first loop adds
   capacity / 60 * runningMinutes per slot with a mold, the second loop adds
   the capacity per slot with a mold *)
ExpectedUnits60(slots) ==
    SumSeq([i \in DOMAIN slots |->
                Capacity(slots[i].moldId) * slots[i].runningMinutes])
    + SumSeq([i \in DOMAIN slots |-> 60 * Capacity(slots[i].moldId)])

(* variant: a ratio computed without looking at its denominator *)
GuardedRatioUnguarded(num, den) == Ratio(num, den)

(* den > 0 ? num / den : 0 *)
GuardedRatio(num, den) == IF den > 0 THEN Ratio(num, den) ELSE Ratio(0, 1)

(* the body of the response *)
ComputeStats(productionRecords, machine) ==
    LET slots == AllHourData(productionRecords)
        breakdowns == AllBreakdowns(slots)
        totalUnitsProduced ==
            SumSeq([i \in DOMAIN productionRecords |->
                        productionRecords[i].unitsProduced])
        totalDefectiveUnits ==
            SumSeq([i \in DOMAIN productionRecords |->
                        productionRecords[i].defectiveUnits])
        totalRunningMinutes ==
            SumSeq([i \in DOMAIN slots |-> slots[i].runningMinutes])
        totalStoppageMinutes ==
            SumSeq([i \in DOMAIN slots |-> slots[i].stoppageMinutes])
        breakdownStoppages == Len(breakdowns)
        totalBreakdownMinutes ==
            SumSeq([i \in DOMAIN breakdowns |-> breakdowns[i].duration])
        availability ==
            GuardedRatio(totalRunningMinutes,
                         totalRunningMinutes + totalStoppageMinutes)
        quality ==
            GuardedRatio(totalUnitsProduced - totalDefectiveUnits,
                         totalUnitsProduced)
        performance ==
            GuardedRatio(60 * totalUnitsProduced, ExpectedUnits60(slots))
        oee == Times(Times(availability, quality), performance)
        mtbf == GuardedRatio(totalRunningMinutes, breakdownStoppages)
        mttr == GuardedRatio(totalBreakdownMinutes, breakdownStoppages)
    IN  [totalUnitsProduced |-> totalUnitsProduced,
         totalDefectiveUnits |-> totalDefectiveUnits,
         oee |-> RoundScaled(oee, 100),
         mtbf |-> RoundScaled(mtbf, 1),
         mttr |-> RoundScaled(mttr, 1),
         availability |-> RoundScaled(availability, 100),
         quality |-> RoundScaled(quality, 100),
         performance |-> RoundScaled(performance, 100),
         currentStatus |-> machine.status,
         totalRunningMinutes |-> totalRunningMinutes,
         totalStoppageMinutes |-> totalStoppageMinutes,
         breakdownStoppages |-> breakdownStoppages,
         totalBreakdownMinutes |-> totalBreakdownMinutes]

NoStats == [currentStatus |-> NoStatus]

---------------------------------------------------------------------------
(* The environment: time zones, the clock, the requests *)

UTC == [before |-> 0, after |-> 0, at |-> 0]
Karachi == [before |-> 5 * MsPerHour, after |-> 5 * MsPerHour, at |-> 0]
(* clocks go forward one hour at 02:00 local time of day 5 *)
SpringForward == [before |-> -5 * MsPerHour, after |-> -4 * MsPerHour,
                  at |-> 5 * MsPerDay + 7 * MsPerHour]
(* clocks go back one hour at 02:00 local time of day 5 *)
FallBack == [before |-> -4 * MsPerHour, after |-> -5 * MsPerHour,
             at |-> 5 * MsPerDay + 6 * MsPerHour]

(* the same changes of offset, on day 15 *)
LateSpringForward == [SpringForward EXCEPT !.at = 15 * MsPerDay + 7 * MsPerHour]
LateFallBack == [FallBack EXCEPT !.at = 15 * MsPerDay + 6 * MsPerHour]

Zones == {UTC, Karachi}

(* the day and instant at which the clock starts: the day whose 7-day window
   opens on day 1, at 08:00 UTC *)
Today == WindowDays + 1
ClockStart == Today * MsPerDay + 8 * MsPerHour
TickMs == 3 * (MsPerMinute \div 2)

RequestDates == {Today - WindowDays, Today}

SapInputs == {Absent, <<>>, <<" ">>, <<"4", "2">>, <<"A", "1">>, <<" ", "7">>}

(* the submissions: every SAP input on the append path, a well-formed one on
   the paths that name a pending stoppage *)
StoppageRequests ==
    { r \in [machineId : Machines, hour : Hours, date : RequestDates,
             reason : Reasons, description : Descriptions,
             duration : Durations, pendingStoppageId : 0..(MaxRequests - 1),
             sapNotificationNumber : SapInputs] :
        /\ r.reason # "breakdown" => r.sapNotificationNumber = Absent
        /\ r.pendingStoppageId # NoId /\ r.reason = "breakdown"
                => r.sapNotificationNumber = <<"4", "2">> }

(* the reads of the timeline: four times of day, in every zone *)
TimelineZones == {UTC, Karachi, SpringForward, FallBack}
TimelineNows ==
    { Today * MsPerDay + ms :
        ms \in {0, 6 * MsPerHour + 30 * MsPerMinute, 12 * MsPerHour,
                23 * MsPerHour + 30 * MsPerMinute} }

(* what the signal ingestion has stored of an hour before any request: a
   slot with running minutes and stoppages and without a status of its own *)
IngestedStoppage(duration) ==
    [id |-> MaxRequests + 1, reason |-> "other", description |-> NoText,
     startTime |-> DateUTC(Today) + 8 * MsPerHour,
     endTime |-> DateUTC(Today) + 8 * MsPerHour + duration * MsPerMinute,
     duration |-> duration, isPending |-> FALSE, isClassified |-> TRUE,
     sapNotificationNumber |-> Absent]

IngestedHourData(runningMinutes, stoppages) ==
    [hour |-> 8, unitsProduced |-> 120, defectiveUnits |-> 0,
     status |-> NoStatus, runningMinutes |-> runningMinutes,
     stoppageMinutes |-> SumDurations(stoppages), stoppages |-> stoppages,
     operatorId |-> NoRef, moldId |-> NoRef]

IngestedStores ==
    { << [NewProductionRecord(m, Today) EXCEPT
            !.hourlyData = <<IngestedHourData(run, stoppages)>>,
            !.unitsProduced = 120] >> :
        m \in Machines, run \in {0, 10, 50},
        stoppages \in {<<>>, <<IngestedStoppage(10)>>,
                       <<IngestedStoppage(60)>>} }

TodayRequests == { r \in StoppageRequests : r.date = Today }

(* the submissions that fill the store the timeline reads *)
TimelineRequests ==
    { r \in StoppageRequests :
        /\ r.reason = "other"
        /\ r.pendingStoppageId = NoId }

(* who asks: administrators and operators, of the machine's department, of
   another one, of none *)
Admin == [role |-> "admin", departmentId |-> NoRef]
Requesters ==
    { Admin,
      [role |-> "admin", departmentId |-> "D2"],
      [role |-> "operator", departmentId |-> "D1"],
      [role |-> "operator", departmentId |-> "D2"],
      [role |-> "operator", departmentId |-> NoRef] }

(* the machine ids requests name: the machines, and an id of no machine *)
MachineIds == Machines \cup {"M404"}

(* "HH:00" *)
Clock(h) == <<DigitChars[(h \div 10) + 1], DigitChars[(h % 10) + 1],
              ":", "0", "0">>
Shift(startHour, endHour) ==
    [startTime |-> Clock(startHour), endTime |-> Clock(endHour)]

NoShifts == <<>>
MorningAndNight == <<Shift(8, 10), Shift(22, 6)>>

(* the shift lists of the configuration: none, three shifts round the clock,
   two overlapping shifts, a short and a night shift, times written without
   a leading zero or with minutes, a shift of no hours, shifts that start
   or end at 24:00 or end at 00:00 *)
EveningAndNight == <<Shift(16, 24), Shift(24, 6)>>
ShiftLists ==
    { NoShifts,
      EveningAndNight,
      <<Shift(12, 0), Shift(0, 12)>>,
      <<Shift(6, 14), Shift(14, 22), Shift(22, 6)>>,
      <<Shift(22, 6), Shift(0, 8)>>,
      MorningAndNight,
      <<[startTime |-> <<"6", ":", "3", "0">>,
         endTime |-> <<"1", "8", ":", "0", "0">>], Shift(18, 6)>>,
      <<Shift(8, 8)>> }

Ali == <<"a", "l", "i">>
Bob == <<"b", "o", "b">>

(* the assignments: nothing but defective units, or a known operator with a
   well-formed mold; with or without defective units, for the hour or for
   its shift *)
AssignHours == {8, 9}
AssignmentRequests ==
    { r \in [machineId : Machines, hour : AssignHours, date : {Today},
             operatorId : {Absent, Ali}, moldId : {Absent, Hex24("b")},
             defectiveUnits : {NoUnits, 3}, applyToShift : BOOLEAN] :
        (r.operatorId = Absent) <=> (r.moldId = Absent) }

(* the assignments the validation rejects: an unknown user name, a mold id
   that is not well formed, both *)
RejectedAssignments ==
    { [machineId |-> m, hour |-> 8, date |-> Today, operatorId |-> o[1],
       moldId |-> o[2], defectiveUnits |-> 3, applyToShift |-> FALSE] :
        m \in Machines,
        o \in { <<Bob, Absent>>, <<Bob, Hex24("b")>>, <<Ali, <<"x", "1">>>>,
                <<Absent, <<"x", "1">>>>, <<Bob, <<"x", "1">>>>,
                <<<<" ">>, <<"x", "1">>>> } }

(* an assignment whose operator and mold are blank strings *)
BlankAssignments ==
    { [machineId |-> m, hour |-> 8, date |-> Today, operatorId |-> <<" ">>,
       moldId |-> <<>>, defectiveUnits |-> 3, applyToShift |-> FALSE] :
        m \in Machines }

(* one assignment per hour of the day, for the hour and for its shift *)
ShiftRequests ==
    [machineId : Machines, hour : 0..(HoursPerDay - 1), date : {Today},
     operatorId : {Ali}, moldId : {Absent}, defectiveUnits : {NoUnits},
     applyToShift : BOOLEAN]

(* the submissions that go with the assignments *)
PlainStoppages ==
    { r \in TodayRequests :
        /\ r.reason = "other"
        /\ r.pendingStoppageId = NoId }

(* the submissions that name no pending stoppage *)
NewStoppages == { r \in TodayRequests : r.pendingStoppageId = NoId }

(* the writes that name any machine id *)
AnyMachineStoppages ==
    { [r EXCEPT !.machineId = m] : r \in PlainStoppages, m \in MachineIds }
AnyMachineAssignments ==
    { [r EXCEPT !.machineId = m] :
        r \in { a \in AssignmentRequests :
                    /\ a.hour = 8
                    /\ a.defectiveUnits = 3
                    /\ a.operatorId = Absent
                    /\ ~a.applyToShift },
        m \in MachineIds }

Periods == {NoPeriod, "24h", "7d", "30d", "1y"}

(* what the ingestion has stored of worked days, for the statistics *)
StatsStoppage(reason, duration) ==
    [id |-> MaxRequests + 1, reason |-> reason, description |-> NoText,
     startTime |-> 0, endTime |-> duration * MsPerMinute,
     duration |-> duration, isPending |-> FALSE, isClassified |-> TRUE,
     sapNotificationNumber |->
        IF reason = "breakdown" THEN <<"4", "2">> ELSE Absent]

StatsHourData(hour, unitsProduced, runningMinutes, moldId, stoppages) ==
    [hour |-> hour, unitsProduced |-> unitsProduced, defectiveUnits |-> 0,
     status |-> NoStatus, runningMinutes |-> runningMinutes,
     stoppageMinutes |-> SumDurations(stoppages), stoppages |-> stoppages,
     operatorId |-> NoRef, moldId |-> moldId]

(* a day of 8 worked hours on a mold of 120 units an hour: 480 running
   minutes, 120 stoppage minutes of which 30 in two breakdowns, 1000 units
   of which 50 defective *)
WorkedDay(machineId, date) ==
    [NewProductionRecord(machineId, date) EXCEPT
        !.unitsProduced = 1000,
        !.defectiveUnits = 50,
        !.hourlyData =
            [i \in 1..8 |->
                StatsHourData(5 + i, 125, 60, "MOLD1",
                    <<StatsStoppage(IF i <= 2 THEN "breakdown" ELSE "other",
                                    15)>>)]]

(* a day with one slot in which nothing happened *)
IdleDay(machineId, date) ==
    [NewProductionRecord(machineId, date) EXCEPT
        !.hourlyData = <<NewAssignmentHourData(8, "U1", NoRef)>>]

(* a day with half an hour of work and no mold *)
ShortDay(machineId, date) ==
    [NewProductionRecord(machineId, date) EXCEPT
        !.unitsProduced = 10,
        !.hourlyData = <<StatsHourData(8, 10, 30, NoRef, <<>>)>>]

(* the days on which the store of the window checks holds a record *)
RecordDays == <<-8, -7, 15, 16, 21, 22>>

StatsStores(date) ==
    { <<>>,
      <<WorkedDay("M1", date)>>,
      <<IdleDay("M1", date)>>,
      <<WorkedDay("M1", date), IdleDay("M2", date), ShortDay("M1", date - 1)>>,
      [i \in DOMAIN RecordDays |-> ShortDay("M1", RecordDays[i])]
        \o <<ShortDay("M2", 22)>> }

(* the zones and the instants of the statistics reads: half an hour after
   and before midnight UTC, one day and seven days after the change of
   offset, and a noon *)
StatsZones == {UTC, Karachi, LateSpringForward, LateFallBack}
StatsNows ==
    { 16 * MsPerDay + 30 * MsPerMinute,
      22 * MsPerDay - 30 * MsPerMinute,
      22 * MsPerDay + 30 * MsPerMinute,
      22 * MsPerDay + 12 * MsPerHour }

NoRequest == [op |-> "none"]

(* the handlers of the write requests that can be in flight together *)
Handlers == {1, 2}

(* a handler before its request arrives *)
Idle == [pc |-> "idle", op |-> "none", req |-> NoRequest, index |-> 0,
         doc |-> NoRecord, hours |-> <<>>, validOperatorId |-> NoRef,
         validMoldId |-> NoRef, status |-> 0, events |-> <<>>,
         notify |-> "none"]
NoneInFlight == [h \in Handlers |-> Idle]

---------------------------------------------------------------------------
(* Actions *)

(* router.post('/stoppage'), rejected by the validation: 400, nothing
   read, written or emitted *)
RejectStoppage(req) ==
    /\ SapMissing(req) \/ SapMalformed(req)
    /\ last' = [op |-> "stoppage", req |-> req, status |-> 400,
                saved |-> FALSE, events |-> <<>>, notify |-> "none",
                branch |-> "rejected", idx |-> 0, at |-> now,
                before |-> store]
    /\ UNCHANGED <<zone, config, now, store, nextId, handled, timeline, stats, inflight>>

(* router.post('/stoppage'), past the validation *)
AcceptStoppage(req, notify) ==
    LET index == FindOneIndex(store, req.machineId, req.date)
        productionRecord == IF index > 0 THEN store[index]
                            ELSE NewProductionRecord(req.machineId, req.date)
        found == HourIndex(productionRecord, req.hour)
        hourData == IF found > 0 THEN productionRecord.hourlyData[found]
                    ELSE NewStoppageHourData(req.hour)
        branch == StoppageBranch(hourData, req)
        out == AfterSave(req, notify)
    IN  /\ ~SapMissing(req)
        /\ ~SapMalformed(req)
        /\ handled < MaxRequests
        /\ req.reason # "breakdown" => notify = "sent"
        /\ store' = Save(store, index,
                         RecordStoppage(productionRecord, zone, now, nextId, req))
        /\ nextId' = IF branch = "finalize" THEN nextId ELSE nextId + 1
        /\ last' = [op |-> "stoppage", req |-> req, status |-> out.status,
                    saved |-> TRUE, events |-> out.events,
                    notify |-> out.notify, branch |-> branch,
                    idx |-> StoppageIndex(hourData.stoppages,
                                          req.pendingStoppageId),
                    at |-> now, before |-> store]
        /\ handled' = handled + 1
        /\ UNCHANGED <<zone, config, now, timeline, stats, inflight>>

(* the signal ingestion opens a pending stoppage in the slot of the current
   hour: reason "unclassified", started now, not yet classified *)
PendingStoppage(id, t) ==
    [id |-> id, reason |-> "unclassified", description |-> NoText,
     startTime |-> t, endTime |-> NoTime, duration |-> 0,
     isPending |-> TRUE, isClassified |-> FALSE,
     sapNotificationNumber |-> Absent]

OpenPendingStoppage(machineId) ==
    LET date == ISODate(now)
        hour == (now % MsPerDay) \div MsPerHour
        index == FindOneIndex(store, machineId, date)
        record == IF index > 0 THEN store[index]
                  ELSE NewProductionRecord(machineId, date)
        found == HourIndex(record, hour)
        hourlyData == IF found > 0 THEN record.hourlyData
                      ELSE Append(record.hourlyData, NewStoppageHourData(hour))
        at == IF found > 0 THEN found ELSE Len(hourlyData)
    IN  /\ handled < MaxRequests
        /\ store' = Save(store, index,
              [record EXCEPT !.hourlyData =
                  [hourlyData EXCEPT ![at].stoppages =
                      Append(@, PendingStoppage(nextId, now))]])
        /\ nextId' = nextId + 1
        /\ last' = [op |-> "signal", req |-> NoRequest, status |-> 0,
                    saved |-> TRUE, events |-> <<>>, notify |-> "none",
                    branch |-> "pending", idx |-> 0, at |-> now,
                    before |-> store]
        /\ handled' = handled + 1
        /\ UNCHANGED <<zone, config, now, timeline, stats, inflight>>

(* time passes *)
Tick ==
    /\ now + TickMs <= ClockStart + MaxTicks * TickMs
    /\ now' = now + TickMs
    /\ UNCHANGED <<zone, config, store, nextId, handled, last, timeline, stats, inflight>>

NoLast == [op |-> "none", req |-> NoRequest, status |-> 0, saved |-> FALSE,
           events |-> <<>>, notify |-> "none", branch |-> "none", idx |-> 0,
           at |-> 0, before |-> <<>>]

Init ==
    /\ zone \in Zones
    /\ config = NoShifts
    /\ now = ClockStart
    /\ store = <<>>
    /\ nextId = 1
    /\ handled = 0
    /\ last = NoLast
    /\ timeline = <<>>
    /\ stats = NoStats
    /\ inflight = NoneInFlight

Next ==
    \/ \E req \in TodayRequests : RejectStoppage(req)
    \/ \E req \in TodayRequests, notify \in NotifyOutcomes :
            AcceptStoppage(req, notify)
    \/ \E m \in Machines : OpenPendingStoppage(m)
    \/ Tick

Spec == Init /\ [][Next]_vars

(* router.get('/production-timeline/:machineId'): the access check, then
   the query and the grid *)
GetTimeline(user, machineId) ==
    LET denied == CheckAccess(user, machineId)
    IN  /\ timeline' = IF denied # 0 THEN <<>>
                       ELSE ProductionTimeline(store, zone, now, machineId)
        /\ last' = [op |-> "timeline",
                    req |-> [machineId |-> machineId, user |-> user],
                    status |-> IF denied # 0 THEN denied ELSE 200,
                    saved |-> FALSE, events |-> <<>>,
                    notify |-> "none",
                    branch |-> IF denied # 0 THEN "refused" ELSE "read",
                    idx |-> 0, at |-> now, before |-> store,
                    reads |-> IF denied # 0 THEN 0 ELSE 1]
        /\ UNCHANGED <<zone, config, now, store, nextId, handled, stats, inflight>>

InitTimeline ==
    /\ zone \in TimelineZones
    /\ config = NoShifts
    /\ now \in TimelineNows
    /\ store \in {<<>>} \cup IngestedStores
    /\ nextId = 1
    /\ handled = 0
    /\ last = NoLast
    /\ timeline = <<>>
    /\ stats = NoStats
    /\ inflight = NoneInFlight

NextTimeline ==
    \/ \E req \in TimelineRequests : AcceptStoppage(req, "sent")
    \/ \E m \in Machines : GetTimeline(Admin, m)

SpecTimeline == InitTimeline /\ [][NextTimeline]_vars

---------------------------------------------------------------------------
(* The writes of the production assignment *)

(* router.post('/stoppage') past the validation, when save() throws: 500,
   nothing stored, no notification and no event *)
FailStoppage(req) ==
    /\ ~SapMissing(req)
    /\ ~SapMalformed(req)
    /\ handled < MaxRequests
    /\ last' = [op |-> "stoppage", req |-> req, status |-> 500,
                saved |-> FALSE, events |-> <<>>, notify |-> "none",
                branch |-> "failed", idx |-> 0, at |-> now,
                before |-> store]
    /\ handled' = handled + 1
    /\ UNCHANGED <<zone, config, now, store, nextId, timeline, stats, inflight>>

(* router.post('/production-assignment'), rejected by the validation of the
   operator or of the mold: 400, nothing written or emitted *)
RejectAssignment(req) ==
    /\ AssignmentError(req) # "none"
    /\ last' = [op |-> "assignment", req |-> req, status |-> 400,
                saved |-> FALSE, events |-> <<>>, notify |-> "none",
                branch |-> "rejected", idx |-> 0, at |-> now,
                before |-> store, hours |-> <<>>,
                operatorId |-> NoRef, moldId |-> NoRef,
                message |-> AssignmentError(req)]
    /\ UNCHANGED <<zone, config, now, store, nextId, handled, timeline, stats, inflight>>

(* router.post('/production-assignment'), past the validation; saves tells
   whether save() stores the record or throws *)
AcceptAssignment(req, saves) ==
    LET index == FindOneIndex(store, req.machineId, req.date)
        productionRecord == IF index > 0 THEN store[index]
                            ELSE NewProductionRecord(req.machineId, req.date)
        out == AfterAssignment(saves)
    IN  /\ ResolveOperator(req.operatorId).valid
        /\ ResolveMold(req.moldId).valid
        /\ handled < MaxRequests
        /\ store' = IF saves
                    THEN Save(store, index,
                              RecordAssignment(productionRecord, config, req))
                    ELSE store
        /\ last' = [op |-> "assignment", req |-> req, status |-> out.status,
                    saved |-> saves, events |-> out.events,
                    notify |-> "none",
                    branch |-> IF saves THEN "assign" ELSE "failed",
                    idx |-> 0, at |-> now, before |-> store,
                    hours |-> HoursToUpdate(config, req.hour, req.applyToShift),
                    operatorId |-> ResolveOperator(req.operatorId).id,
                    moldId |-> ResolveMold(req.moldId).id]
        /\ handled' = handled + 1
        /\ UNCHANGED <<zone, config, now, nextId, timeline, stats, inflight>>

InitAssign ==
    /\ zone = UTC
    /\ config = MorningAndNight
    /\ now = ClockStart
    /\ store = <<>>
    /\ nextId = 1
    /\ handled = 0
    /\ last = NoLast
    /\ timeline = <<>>
    /\ stats = NoStats
    /\ inflight = NoneInFlight

NextAssign ==
    \/ \E req \in AssignmentRequests \cup RejectedAssignments
                    \cup BlankAssignments :
            RejectAssignment(req)
    \/ \E req \in AssignmentRequests \cup RejectedAssignments
                    \cup BlankAssignments, saves \in BOOLEAN :
            AcceptAssignment(req, saves)
    \/ \E req \in TodayRequests : RejectStoppage(req)
    \/ \E req \in NewStoppages, notify \in NotifyOutcomes :
            AcceptStoppage(req, notify)
    \/ \E req \in PlainStoppages : FailStoppage(req)

SpecAssign == InitAssign /\ [][NextAssign]_vars

(* one assignment, at any hour of the day, under any shift list *)
InitShift ==
    /\ zone = UTC
    /\ config \in ShiftLists
    /\ now = ClockStart
    /\ store = <<>>
    /\ nextId = 1
    /\ handled = MaxRequests - 1
    /\ last = NoLast
    /\ timeline = <<>>
    /\ stats = NoStats
    /\ inflight = NoneInFlight

NextShift == \E req \in ShiftRequests : AcceptAssignment(req, TRUE)

SpecShift == InitShift /\ [][NextShift]_vars

---------------------------------------------------------------------------
(* The reads of the statistics *)

(* router.get('/machine-stats/:machineId'): the access check, then the query
   and the aggregation *)
GetStats(user, machineId, period) ==
    LET denied == CheckAccess(user, machineId)
        productionRecords ==
            IF denied # 0 THEN <<>>
            ELSE FindRecords(store, machineId,
                             StatsStart(zone, now, period), now)
    IN  /\ stats' = IF denied # 0 THEN NoStats
                    ELSE ComputeStats(productionRecords,
                                      FindMachine(machineId))
        /\ last' = [op |-> "stats",
                    req |-> [machineId |-> machineId, user |-> user,
                             period |-> period],
                    status |-> IF denied # 0 THEN denied ELSE 200,
                    saved |-> FALSE, events |-> <<>>,
                    notify |-> "none",
                    branch |-> IF denied # 0 THEN "refused" ELSE "read",
                    idx |-> 0, at |-> now, before |-> store,
                    reads |-> IF denied # 0 THEN 0 ELSE 1,
                    records |-> productionRecords]
        /\ UNCHANGED <<zone, config, now, store, nextId, handled, timeline, inflight>>

InitStats ==
    /\ zone \in StatsZones
    /\ config = NoShifts
    /\ now \in StatsNows
    /\ store \in StatsStores(ISODate(now))
    /\ nextId = 1
    /\ handled = 0
    /\ last = NoLast
    /\ timeline = <<>>
    /\ stats = NoStats
    /\ inflight = NoneInFlight

NextStats ==
    \E user \in Requesters, m \in MachineIds, period \in Periods :
        GetStats(user, m, period)

SpecStats == InitStats /\ [][NextStats]_vars

---------------------------------------------------------------------------
(* Every operation, by any requester, on any machine id *)

InitAccess ==
    /\ zone = UTC
    /\ config = MorningAndNight
    /\ now = ClockStart
    /\ store \in {<<>>, <<WorkedDay("M1", Today)>>}
    /\ nextId = 1
    /\ handled = 0
    /\ last = NoLast
    /\ timeline = <<>>
    /\ stats = NoStats
    /\ inflight = NoneInFlight

NextAccess ==
    \/ \E user \in Requesters, m \in MachineIds : GetTimeline(user, m)
    \/ \E user \in Requesters, m \in MachineIds : GetStats(user, m, "24h")
    \/ \E req \in AnyMachineStoppages : AcceptStoppage(req, "sent")
    \/ \E req \in AnyMachineAssignments : AcceptAssignment(req, TRUE)

SpecAccess == InitAccess /\ [][NextAccess]_vars

---------------------------------------------------------------------------
(* The concurrent writes: each handler runs up to its next await, and the
   continuations of the handlers in flight interleave *)

(* the writes in flight together: stoppages of hour 8, assignments of
   defective units to hour 9, or to hour 8 and its shift *)
RaceStoppages ==
    { r \in NewStoppages :
           r.sapNotificationNumber \in {Absent, <<"4", "2">>} }
RaceAssignments ==
    { r \in AssignmentRequests :
        /\ r.operatorId = Absent
        /\ r.defectiveUnits = 3
        /\ r.applyToShift <=> r.hour = 8 }

(* router.post('/stoppage') up to the findOne it awaits: the validation *)
StartStoppage(h, req) ==
    /\ inflight[h].pc \in {"idle", "done"}
    /\ ~SapMissing(req)
    /\ ~SapMalformed(req)
    /\ handled < MaxRequests
    /\ inflight' = [inflight EXCEPT ![h] =
            [Idle EXCEPT !.pc = "find", !.op = "stoppage", !.req = req]]
    /\ handled' = handled + 1
    /\ UNCHANGED <<zone, config, now, store, nextId, last, timeline, stats>>

(* router.post('/production-assignment') up to the findOne it awaits: the
   operator and the mold are resolved *)
StartAssignment(h, req) ==
    /\ inflight[h].pc \in {"idle", "done"}
    /\ ResolveOperator(req.operatorId).valid
    /\ ResolveMold(req.moldId).valid
    /\ handled < MaxRequests
    /\ inflight' = [inflight EXCEPT ![h] =
            [Idle EXCEPT !.pc = "find", !.op = "assignment", !.req = req,
                         !.validOperatorId = ResolveOperator(req.operatorId).id,
                         !.validMoldId = ResolveMold(req.moldId).id]]
    /\ handled' = handled + 1
    /\ UNCHANGED <<zone, config, now, store, nextId, last, timeline, stats>>

(* ProductionRecord.findOne answers: the handler holds the stored document
   of the day, or a new one that is not stored yet; the assignment goes on
   to read the shifts and to compute its hours *)
FindRecord(h) ==
    LET me == inflight[h]
        index == FindOneIndex(store, me.req.machineId, me.req.date)
    IN  /\ me.pc = "find"
        /\ inflight' = [inflight EXCEPT ![h] =
                [me EXCEPT
                    !.index = index,
                    !.doc = IF index > 0 THEN store[index]
                            ELSE NewProductionRecord(me.req.machineId,
                                                     me.req.date),
                    !.hours = IF me.op = "assignment"
                              THEN HoursToUpdate(config, me.req.hour,
                                                 me.req.applyToShift)
                              ELSE <<>>,
                    !.pc = IF me.op = "assignment" THEN "loop" ELSE "save"]]
        /\ UNCHANGED <<zone, config, now, store, nextId, handled, last,
                       timeline, stats>>

(* variant: every turn of the loop saves the document *)
StoreAfterHourSaved(st, index, doc) == Save(st, index, doc)

(* what one turn of the loop over hoursToUpdate leaves in the store: the
   loop changes the handler's document only, it holds no save *)
StoreAfterHour(st, index, doc) == st

(* one turn of the loop over hoursToUpdate *)
UpdateHour(h) ==
    LET me == inflight[h]
        doc == [me.doc EXCEPT !.hourlyData =
                    UpdateHours(@, <<Head(me.hours)>>, me.req,
                                me.validOperatorId, me.validMoldId)]
    IN  /\ me.pc = "loop"
        /\ me.hours # <<>>
        /\ inflight' = [inflight EXCEPT ![h] =
                [me EXCEPT !.doc = doc, !.hours = Tail(me.hours)]]
        /\ store' = StoreAfterHour(store, me.index, doc)
        /\ UNCHANGED <<zone, config, now, nextId, handled, last, timeline,
                       stats>>

(* the assignment after the loop: the rollup of the defective units, then
   save() stores the handler's document *)
SaveAssignment(h) ==
    LET me == inflight[h]
        doc == [me.doc EXCEPT
                    !.defectiveUnits = TotalDefectiveUnits(me.doc.hourlyData)]
    IN  /\ me.pc = "loop"
        /\ me.hours = <<>>
        /\ store' = Save(store, me.index, doc)
        /\ inflight' = [inflight EXCEPT ![h] =
                [me EXCEPT !.doc = doc, !.pc = "emit"]]
        /\ UNCHANGED <<zone, config, now, nextId, handled, last, timeline,
                       stats>>

(* the stoppage after findOne: the slot and the stoppage are written into
   the handler's document, then save() stores it; a breakdown goes on to
   its notification *)
SaveStoppage(h) ==
    LET me == inflight[h]
        found == HourIndex(me.doc, me.req.hour)
        hourData == IF found > 0 THEN me.doc.hourlyData[found]
                    ELSE NewStoppageHourData(me.req.hour)
        doc == RecordStoppage(me.doc, zone, now, nextId, me.req)
    IN  /\ me.pc = "save"
        /\ store' = Save(store, me.index, doc)
        /\ nextId' = IF StoppageBranch(hourData, me.req) = "finalize"
                     THEN nextId ELSE nextId + 1
        /\ inflight' = [inflight EXCEPT ![h] =
                [me EXCEPT !.doc = doc,
                           !.pc = IF me.req.reason = "breakdown"
                                  THEN "notify" ELSE "emit"]]
        /\ UNCHANGED <<zone, config, now, handled, last, timeline, stats>>

(* what the handler answered, as the last request handled *)
Answered(me) ==
    [op |-> me.op, req |-> me.req, status |-> me.status,
     saved |-> me.status # 500, events |-> me.events, notify |-> me.notify,
     branch |-> "concurrent", idx |-> 0, at |-> now, before |-> store]

(* the handler's catch: a throw between findOne and the end of save() is
   answered 500; nothing is emitted *)
FailWrite(h) ==
    LET me == [inflight[h] EXCEPT !.pc = "done", !.status = 500]
    IN  /\ inflight[h].pc \in {"loop", "save"}
        /\ inflight' = [inflight EXCEPT ![h] = me]
        /\ last' = Answered(me)
        /\ UNCHANGED <<zone, config, now, store, nextId, handled, timeline,
                       stats>>

(* await sendBreakdownNotification(...) settles: it returned or it threw
   into the catch that logs *)
NotificationSettles(h, notify) ==
    /\ inflight[h].pc = "notify"
    /\ inflight' = [inflight EXCEPT ![h] =
            [@ EXCEPT !.pc = "emit", !.notify = notify]]
    /\ UNCHANGED <<zone, config, now, store, nextId, handled, last, timeline,
                   stats>>

(* io.emit and the answer: 'stoppage-added' and 201, or
   'production-assignment-updated' and 200 *)
Respond(h) ==
    LET out == IF inflight[h].op = "stoppage"
               THEN AfterSave(inflight[h].req, inflight[h].notify)
               ELSE AfterAssignment(TRUE)
        me == [inflight[h] EXCEPT !.pc = "done", !.status = out.status,
                                  !.events = out.events]
    IN  /\ inflight[h].pc = "emit"
        /\ inflight' = [inflight EXCEPT ![h] = me]
        /\ last' = Answered(me)
        /\ UNCHANGED <<zone, config, now, store, nextId, handled, timeline,
                       stats>>

InitRace ==
    /\ zone = UTC
    /\ config = MorningAndNight
    /\ now = ClockStart
    /\ store = <<>>
    /\ nextId = 1
    /\ handled = 0
    /\ last = NoLast
    /\ timeline = <<>>
    /\ stats = NoStats
    /\ inflight = NoneInFlight

NextRace ==
    \/ \E h \in Handlers, req \in RaceStoppages : StartStoppage(h, req)
    \/ \E h \in Handlers, req \in RaceAssignments : StartAssignment(h, req)
    \/ \E h \in Handlers : FindRecord(h)
    \/ \E h \in Handlers : UpdateHour(h)
    \/ \E h \in Handlers : SaveAssignment(h)
    \/ \E h \in Handlers : SaveStoppage(h)
    \/ \E h \in Handlers : FailWrite(h)
    \/ \E h \in Handlers, notify \in NotifyOutcomes :
            NotificationSettles(h, notify)
    \/ \E h \in Handlers : Respond(h)

SpecRace == InitRace /\ [][NextRace]_vars

(* one handler of stoppage submissions, and the event loop that runs every
   continuation that is ready: the handler's own steps are fair; nothing
   makes a request arrive, a write throw, or the awaited notification
   settle *)
NextAwait ==
    \/ \E req \in RaceStoppages : StartStoppage(1, req)
    \/ FindRecord(1)
    \/ SaveStoppage(1)
    \/ FailWrite(1)
    \/ \E notify \in NotifyOutcomes : NotificationSettles(1, notify)
    \/ Respond(1)

SpecAwait ==
    /\ InitRace
    /\ [][NextAwait]_vars
    /\ WF_vars(FindRecord(1))
    /\ WF_vars(SaveStoppage(1))
    /\ WF_vars(Respond(1))

---------------------------------------------------------------------------
(* The statistics of records the production assignment has written *)

(* the defective units operators submit: none, a few, more than the hour
   produced *)
DefectiveInputs == {0, 3, 500}

QualityAssignments ==
    [machineId : Machines, hour : {8, 9}, date : {Today},
     operatorId : {Absent}, moldId : {Absent},
     defectiveUnits : DefectiveInputs, applyToShift : {FALSE}]

InitQuality ==
    /\ zone = UTC
    /\ config = NoShifts
    /\ now = ClockStart
    /\ store \in {<<>>} \cup IngestedStores
    /\ nextId = 1
    /\ handled = 0
    /\ last = NoLast
    /\ timeline = <<>>
    /\ stats = NoStats
    /\ inflight = NoneInFlight

NextQuality ==
    \/ \E req \in QualityAssignments : AcceptAssignment(req, TRUE)
    \/ \E m \in Machines : GetStats(Admin, m, "24h")

SpecQuality == InitQuality /\ [][NextQuality]_vars

---------------------------------------------------------------------------
(* Properties of the stoppage submission *)

(* the slot a request targets, in a store that holds it *)
HasSlot(st, req) ==
    /\ FindOneIndex(st, req.machineId, req.date) > 0
    /\ HourIndex(st[FindOneIndex(st, req.machineId, req.date)], req.hour) > 0

SlotOf(st, req) ==
    LET record == st[FindOneIndex(st, req.machineId, req.date)]
    IN  record.hourlyData[HourIndex(record, req.hour)]

AllStoppages(st) ==
    { st[i].hourlyData[j].stoppages[k] :
        <<i, j, k>> \in { x \in (DOMAIN st) \X (1..HoursPerDay) \X (1..MaxRequests + 1) :
            /\ x[2] \in DOMAIN st[x[1]].hourlyData
            /\ x[3] \in DOMAIN st[x[1]].hourlyData[x[2]].stoppages } }

StoppageDone == last.op = "stoppage" /\ last.status = 201

(* a string with a character that is not a digit *)
HasNonDigit(s) == \E i \in 1..Len(s) : s[i] \notin Digits

(* C1: after every successful stoppage submission, whichever branch it took,
   the stored stoppageMinutes of the targeted slot equals the sum of the
   durations of the slot's stoppages. *)
C1_StoppageMinutesIsSum ==
    StoppageDone =>
        LET slot == SlotOf(store, last.req)
        IN  slot.stoppageMinutes = SumDurations(slot.stoppages)

(* C2: a breakdown submission whose SAP notification number is missing,
   empty, blank or holds any character that is not a digit is rejected by
   the validation and changes nothing: the store is as before, no event and
   no notification go out. *)
C2_NonDigitSapRejected ==
    (/\ last.op = "stoppage"
     /\ last.req.reason = "breakdown"
     /\ \/ last.req.sapNotificationNumber = Absent
        \/ last.req.sapNotificationNumber = <<>>
        \/ HasNonDigit(last.req.sapNotificationNumber))
    => (/\ last.status = 400
        /\ store = last.before
        /\ last.events = <<>>
        /\ last.notify = "none")

(* C3: a finalized stoppage has as duration the whole minutes elapsed between
   its original startTime and the time of the request, whatever duration the
   request sent and whatever duration it held; its startTime is kept and its
   endTime is the time of the request. *)
C3_FinalizeUsesElapsedTime ==
    (StoppageDone /\ last.branch = "finalize") =>
        LET old == SlotOf(last.before, last.req).stoppages[last.idx]
            new == SlotOf(store, last.req).stoppages[last.idx]
            elapsed == last.at - old.startTime
        IN  /\ new.duration * MsPerMinute <= elapsed
            /\ elapsed < (new.duration + 1) * MsPerMinute
            /\ new.startTime = old.startTime
            /\ new.endTime = last.at

C3_Witness ==
    /\ StoppageDone
    /\ last.branch = "finalize"
    /\ LET old == SlotOf(last.before, last.req).stoppages[last.idx]
           new == SlotOf(store, last.req).stoppages[last.idx]
       IN  /\ new.duration > 0
           /\ new.duration # last.req.duration
           /\ new.duration # old.duration
           /\ (last.at - old.startTime) % MsPerMinute # 0

(* C4: when the request names a pending stoppage and the slot holds a
   stoppage with that id, that stoppage is the one finalized, and no other
   stoppage of the slot is touched, even when an "unclassified" stoppage
   stands earlier in the list. *)
C4_ReferencedStoppageFinalized ==
    (/\ StoppageDone
     /\ last.req.pendingStoppageId # NoId
     /\ HasSlot(last.before, last.req)
     /\ \E s \in AllStoppages(last.before) : s.id = last.req.pendingStoppageId)
    => LET old == SlotOf(last.before, last.req).stoppages
           new == SlotOf(store, last.req).stoppages
       IN  /\ last.branch = "finalize"
           /\ old[last.idx].id = last.req.pendingStoppageId
           /\ \A i \in DOMAIN old :
                old[i].id # last.req.pendingStoppageId => new[i] = old[i]

(* C5: every stoppage the submission creates or finalizes ends classified
   and not pending, and in every reachable state every stored stoppage has
   exactly one of isPending and isClassified. *)
C5_PendingXorClassified ==
    /\ \A s \in AllStoppages(store) : s.isPending # s.isClassified
    /\ StoppageDone =>
         \A s \in AllStoppages(store) :
            s \notin AllStoppages(last.before)
                => (~s.isPending /\ s.isClassified)

C5_Witness ==
    /\ StoppageDone
    /\ last.branch = "finalize"
    /\ SlotOf(last.before, last.req).stoppages[last.idx].isPending
    /\ \E s \in AllStoppages(store) : s.isPending
    /\ \E s \in AllStoppages(store) : s.isClassified

(* C6: every stored stoppage whose reason is breakdown carries a SAP
   notification number that is non-empty and all digits, as stored. *)
C6_BreakdownSapIsDigits ==
    \A s \in AllStoppages(store) :
        s.reason = "breakdown" =>
            /\ s.sapNotificationNumber # Absent
            /\ s.sapNotificationNumber # <<>>
            /\ ~HasNonDigit(s.sapNotificationNumber)

(* C7: when the notification of a breakdown stoppage fails, the write stands:
   the record is saved and holds the stoppage, the stoppage-added event is
   emitted and the caller gets the success answer. *)
C7_NotificationFailureIsolated ==
    (/\ last.op = "stoppage"
     /\ last.status # 400
     /\ last.req.reason = "breakdown"
     /\ last.notify \in NotifyFailures)
    => (/\ last.status = 201
        /\ last.saved
        /\ last.events = <<"stoppage-added">>
        /\ HasSlot(store, last.req)
        /\ \E i \in DOMAIN SlotOf(store, last.req).stoppages :
             LET s == SlotOf(store, last.req).stoppages[i]
             IN  /\ s.reason = "breakdown"
                 /\ s.sapNotificationNumber = last.req.sapNotificationNumber
                 /\ s.isClassified)

C7_Witness ==
    /\ last.op = "stoppage"
    /\ last.req.reason = "breakdown"
    /\ last.notify = "lookup-failed"
    /\ last.status = 201
    /\ store # last.before

---------------------------------------------------------------------------
(* Properties of the production timeline *)

TimelineRead == last.op = "timeline" /\ last.status = 200

ZeroHour(e) ==
    /\ e.unitsProduced = 0
    /\ e.defectiveUnits = 0
    /\ e.runningMinutes = 0
    /\ e.stoppageMinutes = 0
    /\ e.stoppages = <<>>
    /\ e.status = "inactive"

(* the records of the machine the read was about *)
RecordsOf(st, machineId) == { st[i] : i \in { j \in DOMAIN st : st[j].machineId = machineId } }

(* C8: the timeline is a dense grid: one day-entry per calendar day from the
   day of startDate to the day of endDate, ascending and without repetition,
   each with the 24 hours 0..23 in order; with no stored record of the
   machine every hour is zero-filled and inactive. *)
C8_DenseGrid ==
    TimelineRead =>
        LET first == ISODate(WindowStart(zone, last.at))
            final == ISODate(last.at)
        IN  /\ Len(timeline) = final - first + 1
            /\ \A i \in DOMAIN timeline :
                /\ timeline[i].date = first + i - 1
                /\ Len(timeline[i].hours) = HoursPerDay
                /\ \A h \in 1..HoursPerDay :
                     /\ timeline[i].hours[h].hour = h - 1
                     /\ RecordsOf(store, last.req.machineId) = {}
                            => ZeroHour(timeline[i].hours[h])

(* the stored slot an hour entry of a day within the window shows *)
ShownSlots(date, hour) ==
    { r.hourlyData[j] :
        <<r, j>> \in { x \in RecordsOf(store, last.req.machineId) \X (1..HoursPerDay) :
            /\ x[1].startTime = DateUTC(date)
            /\ x[1].startTime >= WindowStart(zone, last.at)
            /\ x[1].startTime <= last.at
            /\ x[2] \in DOMAIN x[1].hourlyData
            /\ x[1].hourlyData[x[2]].hour = hour } }

(* C9: an hour entry reports the explicit status of its slot when the slot
   has one; otherwise "inactive" when there are no running and no stoppage
   minutes, "stoppage" when the stoppage minutes exceed the running minutes,
   and "running" in every other case. *)
C9_StatusDerivation ==
    TimelineRead =>
        \A i \in DOMAIN timeline : \A h \in 1..HoursPerDay :
            \A slot \in ShownSlots(timeline[i].date, h - 1) :
                LET e == timeline[i].hours[h]
                IN  e.status =
                        IF slot.status # NoStatus THEN slot.status
                        ELSE IF e.runningMinutes = 0 /\ e.stoppageMinutes = 0
                             THEN "inactive"
                        ELSE IF e.stoppageMinutes > e.runningMinutes
                             THEN "stoppage"
                        ELSE "running"

C9_Witness ==
    /\ TimelineRead
    /\ \E i \in DOMAIN timeline : \E h \in 1..HoursPerDay :
        \E slot \in ShownSlots(timeline[i].date, h - 1) :
            /\ slot.status = NoStatus
            /\ slot.runningMinutes = 50
            /\ Len(slot.stoppages) = 1
            /\ slot.stoppages[1].duration = 10
            /\ timeline[i].hours[h].stoppageMinutes = 10
            /\ timeline[i].hours[h].status = "running"

(* C10: every day-entry the timeline emits, the earliest of the window
   included, carries the slot values of the stored record of that calendar
   day, when there is one. *)
C10_RecordMatchedByDate ==
    TimelineRead =>
        \A i \in DOMAIN timeline :
            \A r \in RecordsOf(store, last.req.machineId) :
                r.startTime = DateUTC(timeline[i].date) =>
                    \A j \in DOMAIN r.hourlyData :
                        LET e == timeline[i].hours[r.hourlyData[j].hour + 1]
                        IN  /\ e.unitsProduced = r.hourlyData[j].unitsProduced
                            /\ e.runningMinutes = r.hourlyData[j].runningMinutes
                            /\ e.stoppages = r.hourlyData[j].stoppages

---------------------------------------------------------------------------
(* Properties of the production assignment *)

AssignmentDone == last.op = "assignment" /\ last.status = 200

(* the record of the machine and day a request names, in a store that holds
   it; a record without slots otherwise *)
RecordOf(st, req) ==
    IF FindOneIndex(st, req.machineId, req.date) > 0
    THEN st[FindOneIndex(st, req.machineId, req.date)]
    ELSE NewProductionRecord(req.machineId, req.date)

SlotHours(record) ==
    { record.hourlyData[j].hour : j \in DOMAIN record.hourlyData }

(* the hour a time string "HH:MM" names *)
HourOf(clock) == ParseInt(BeforeColon(clock))

(* membership of an hour in a shift *)
InShift(shift, h) ==
    IF HourOf(shift.startTime) <= HourOf(shift.endTime)
    THEN HourOf(shift.startTime) <= h /\ h < HourOf(shift.endTime)
    ELSE h >= HourOf(shift.startTime) \/ h < HourOf(shift.endTime)

(* the hour set of the shift calendar resolver *)
ReferenceHours(shifts, hour, applyToShift) ==
    LET containing == { k \in DOMAIN shifts : InShift(shifts[k], hour) }
    IN  IF ~applyToShift \/ containing = {} THEN {hour}
        ELSE LET first == CHOOSE k \in containing :
                                \A other \in containing : k <= other
                 startHour == HourOf(shifts[first].startTime)
                 endHour == HourOf(shifts[first].endTime)
             IN  IF startHour <= endHour THEN startHour..(endHour - 1)
                 ELSE IF hour >= startHour THEN startHour..(HoursPerDay - 1)
                 ELSE 0..(endHour - 1)

(* C11: the hours a production assignment updates are those of the shift
   calendar resolver: the requested hour alone when applyToShift is off or no
   shift contains it; otherwise, for the first shift containing it,
   [startHour, endHour) of a same-day shift, [startHour, 24) of a shift that
   crosses midnight when hour >= startHour, and [0, endHour) when
   hour < endHour. *)
C11_HourSetIsReference ==
    AssignmentDone =>
        LET reference == ReferenceHours(config, last.req.hour,
                                        last.req.applyToShift)
        IN  /\ { last.hours[i] : i \in DOMAIN last.hours } = reference
            /\ SlotHours(RecordOf(store, last.req))
                    = SlotHours(RecordOf(last.before, last.req)) \cup reference

C11_Witness ==
    /\ AssignmentDone
    /\ last.req.applyToShift
    /\ last.req.hour = 23
    /\ \E k \in DOMAIN config : config[k] = Shift(22, 6)
    /\ last.hours = <<22, 23>>
    /\ SlotHours(RecordOf(store, last.req)) = {22, 23}

(* C12: a production assignment leaves every slot that existed before
   unchanged in every field but defectiveUnits, and overwrites defectiveUnits
   only on the slot of the requested hour and only when the request supplies
   it: no other hour of the shift has its defectiveUnits changed. *)
C12_ExistingSlotsKept ==
    AssignmentDone =>
        LET old == RecordOf(last.before, last.req).hourlyData
            new == RecordOf(store, last.req).hourlyData
        IN  /\ Len(new) >= Len(old)
            /\ \A j \in DOMAIN old :
                new[j] =
                    IF /\ old[j].hour = last.req.hour
                       /\ last.req.defectiveUnits # NoUnits
                    THEN [old[j] EXCEPT
                            !.defectiveUnits = last.req.defectiveUnits]
                    ELSE old[j]

C12_Witness ==
    /\ AssignmentDone
    /\ last.req.applyToShift
    /\ last.req.hour = 9
    /\ last.req.operatorId = Ali
    /\ last.req.defectiveUnits = 3
    /\ last.hours = <<8, 9>>
    /\ LET old == RecordOf(last.before, last.req)
           new == RecordOf(store, last.req)
       IN  /\ SlotHours(old) = {8, 9}
           /\ old.hourlyData[HourIndex(old, 8)].stoppages # <<>>
           /\ old.hourlyData[HourIndex(old, 9)].defectiveUnits = 0
           /\ new.hourlyData[HourIndex(new, 8)].operatorId = NoRef
           /\ new.hourlyData[HourIndex(new, 8)].defectiveUnits = 0
           /\ new.hourlyData[HourIndex(new, 9)].defectiveUnits = 3

(* C13: after a successful production assignment every hour of the hour set
   has a slot in the record, and each slot that did not exist before was
   created with no units, no running and no stoppage minutes, no stoppages,
   status "inactive", and the operator and the mold the request resolves to,
   absent when the request names none. *)
C13_NewSlotsSeeded ==
    AssignmentDone =>
        LET old == RecordOf(last.before, last.req)
            new == RecordOf(store, last.req)
            operator == IF last.req.operatorId = Ali THEN "U1" ELSE NoRef
            mold == IF last.req.moldId = Hex24("b") THEN "MOLD1" ELSE NoRef
        IN  /\ \A i \in DOMAIN last.hours : last.hours[i] \in SlotHours(new)
            /\ \A j \in DOMAIN new.hourlyData :
                LET slot == new.hourlyData[j]
                IN  slot.hour \notin SlotHours(old) =>
                        /\ slot.hour \in ReferenceHours(config, last.req.hour,
                                                        last.req.applyToShift)
                        /\ slot.unitsProduced = 0
                        /\ slot.runningMinutes = 0
                        /\ slot.stoppageMinutes = 0
                        /\ slot.stoppages = <<>>
                        /\ slot.status = "inactive"
                        /\ slot.operatorId = operator
                        /\ slot.moldId = mold

C13_Witness ==
    /\ AssignmentDone
    /\ last.req.applyToShift
    /\ last.req.operatorId = Ali
    /\ last.req.moldId = Hex24("b")
    /\ LET old == RecordOf(last.before, last.req)
           new == RecordOf(store, last.req)
       IN  /\ SlotHours(old) = {8}
           /\ SlotHours(new) = {8, 9}
           /\ new.hourlyData[HourIndex(new, 9)].operatorId = "U1"
           /\ new.hourlyData[HourIndex(new, 9)].moldId = "MOLD1"
           /\ new.hourlyData[HourIndex(new, 8)].operatorId = NoRef

(* C14: the defectiveUnits of a record is the sum of the defectiveUnits of
   its hour slots after every successful production assignment, and stays so
   after every later stoppage submission and production assignment on the
   record. *)
C14_DefectiveUnitsIsSum ==
    \A i \in DOMAIN store :
        store[i].defectiveUnits = SumDefectiveUnits(store[i].hourlyData)

C14_Witness ==
    /\ StoppageDone
    /\ LET record == RecordOf(store, last.req)
       IN  /\ record.defectiveUnits = 6
           /\ SlotHours(record) = {8, 9}
           /\ \A j \in DOMAIN record.hourlyData :
                record.hourlyData[j].defectiveUnits = 3
           /\ record.hourlyData[HourIndex(record, 8)].stoppages # <<>>

---------------------------------------------------------------------------
(* Properties of the machine statistics *)

StatsRead == last.op = "stats" /\ last.status = 200

(* the slots and the stoppages of the records a read aggregated *)
SlotsRead ==
    { last.records[i].hourlyData[j] :
        <<i, j>> \in { x \in (DOMAIN last.records) \X (1..HoursPerDay) :
                        x[2] \in DOMAIN last.records[x[1]].hourlyData } }

BreakdownRead ==
    \E slot \in SlotsRead : \E k \in DOMAIN slot.stoppages :
        slot.stoppages[k].reason = "breakdown"

Metrics ==
    { stats.availability, stats.quality, stats.performance, stats.oee,
      stats.mtbf, stats.mttr }

(* C15: the statistics never divide by zero: availability is 0 when there
   are no running and no stoppage minutes, quality is 0 when no unit was
   produced, performance is 0 when no unit is expected, mtbf and mttr are 0
   when no stoppage of the records is a breakdown; every metric reported is
   a number. *)
C15_NoDivisionByZero ==
    StatsRead =>
        /\ \A metric \in Metrics : metric # NaN
        /\ (\A slot \in SlotsRead :
                slot.runningMinutes = 0 /\ slot.stoppageMinutes = 0)
            => stats.availability = 0
        /\ (\A i \in DOMAIN last.records : last.records[i].unitsProduced = 0)
            => stats.quality = 0
        /\ (\A slot \in SlotsRead : Capacity(slot.moldId) = 0)
            => stats.performance = 0
        /\ ~BreakdownRead => (stats.mtbf = 0 /\ stats.mttr = 0)

C15_Witness ==
    /\ StatsRead
    /\ last.records # <<>>
    /\ SlotsRead # {}
    /\ \A slot \in SlotsRead :
        slot.runningMinutes = 0 /\ slot.stoppageMinutes = 0
    /\ ~BreakdownRead
    /\ stats.totalUnitsProduced = 0
    /\ Metrics = {0}

(* the expected units, in sixtieths: per slot with a mold, the capacity per
   hour times the running minutes, and 60 times the capacity per hour *)
ReferenceExpected60(records) ==
    SumSeq([i \in DOMAIN records |->
        SumSeq([j \in DOMAIN records[i].hourlyData |->
            LET slot == records[i].hourlyData[j]
            IN  Capacity(slot.moldId) * slot.runningMinutes
                    + 60 * Capacity(slot.moldId)])])

(* C16: the expected units behind the performance are, over the slots with a
   mold, the sum of capacityPerHour / 60 * runningMinutes plus the sum of
   capacityPerHour; 8 hours on a mold of 120 an hour with 480 running minutes
   give 960 + 960 = 1920, so that 1000 units produced give the performance
   1000 / 1920. *)
C16_ExpectedUnitsCountedTwice ==
    StatsRead =>
        LET expected60 == ReferenceExpected60(last.records)
            units == stats.totalUnitsProduced
        IN  stats.performance =
                IF expected60 = 0 THEN 0
                ELSE (2 * 100 * 60 * units + expected60) \div (2 * expected60)

C16_Witness ==
    /\ StatsRead
    /\ Len(last.records) = 1
    /\ Len(last.records[1].hourlyData) = 8
    /\ \A slot \in SlotsRead :
        Capacity(slot.moldId) = 120 /\ slot.runningMinutes = 60
    /\ stats.totalRunningMinutes = 480
    /\ stats.totalUnitsProduced = 1000
    /\ ReferenceExpected60(last.records) = 60 * 1920
    /\ stats.performance = 52

(* the instant the window of a period opens: 24 hours, 7 days or 30 days
   before t (the 30 days taken in two halves, within the integers at hand) *)
ReferenceStart(t, period) ==
    CASE period \in {NoPeriod, "24h"} -> t - MsPerDay
      [] period = "7d" -> t - 7 * MsPerDay
      [] period = "30d" -> (t - 15 * MsPerDay) - 15 * MsPerDay
      [] OTHER -> t

(* C17: the statistics aggregate exactly the records of the machine whose
   startTime lies in [now - window, now], with a window of 24 hours, 7 days
   or 30 days for the periods 24h, 7d, 30d; for any other period the window
   is empty, the read succeeds and every total and every metric is 0. *)
C17_WindowOfPeriod ==
    StatsRead =>
        /\ { last.records[i] : i \in DOMAIN last.records } =
                { r \in RecordsOf(store, last.req.machineId) :
                    /\ r.startTime >= ReferenceStart(last.at, last.req.period)
                    /\ r.startTime <= last.at }
        /\ last.req.period \notin {NoPeriod, "24h", "7d", "30d"} =>
                /\ last.records = <<>>
                /\ Metrics = {0}
                /\ stats.totalUnitsProduced = 0
                /\ stats.totalDefectiveUnits = 0
                /\ stats.totalRunningMinutes = 0
                /\ stats.totalStoppageMinutes = 0
                /\ stats.breakdownStoppages = 0
                /\ stats.totalBreakdownMinutes = 0

---------------------------------------------------------------------------
(* Properties of the access to a machine, and of the events *)

ReadOp == last.op \in {"timeline", "stats"}

(* the body of the last answer of the read route that was asked *)
NothingReturned ==
    IF last.op = "timeline" THEN timeline = <<>> ELSE stats = NoStats

(* C18: on the timeline and on the statistics, an operator whose department
   is not the department of the machine gets the access-denied answer, and
   for that request no production record is read or returned; a requester
   of any other role is never denied. *)
C18_OperatorOfOtherDepartmentDenied ==
    (ReadOp /\ FindMachine(last.req.machineId) # NoMachine) =>
        LET user == last.req.user
            machine == FindMachine(last.req.machineId)
        IN  /\ (user.role = "operator"
                    /\ user.departmentId # machine.departmentId)
                => (/\ last.status = 403
                    /\ last.reads = 0
                    /\ NothingReturned)
            /\ user.role # "operator" => last.status # 403

C18_Witness ==
    /\ last.op = "stats"
    /\ last.req.user.role = "operator"
    /\ last.req.user.departmentId = "D2"
    /\ last.status = 403
    /\ RecordsOf(store, last.req.machineId) # {}
    /\ stats = NoStats

(* C19: an operation that names a machine id of no machine answers not-found
   and writes nothing, the stoppage submission and the production assignment
   like the two reads: no ProductionRecord of an unknown machine is ever
   stored. *)
C19_UnknownMachineNotFound ==
    /\ (last.op # "none" /\ FindMachine(last.req.machineId) = NoMachine)
        => (last.status = 404 /\ store = last.before)
    /\ \A i \in DOMAIN store : FindMachine(store[i].machineId) # NoMachine

(* C20: a stoppage submission or a production assignment that stores its
   record emits exactly one event, 'stoppage-added' or
   'production-assignment-updated'; no event is emitted unless the record
   has been saved, and a request the validation rejects emits none. *)
C20_OneEventAfterSave ==
    last.op \in {"stoppage", "assignment"} =>
        LET event == IF last.op = "stoppage" THEN "stoppage-added"
                     ELSE "production-assignment-updated"
        IN  /\ last.saved => last.events = <<event>>
            /\ store # last.before => last.events = <<event>>
            /\ last.events # <<>> => last.saved
            /\ last.status = 400 =>
                    (last.events = <<>> /\ store = last.before)

C20_Witness ==
    /\ AssignmentDone
    /\ last.saved
    /\ store # last.before
    /\ last.events = <<"production-assignment-updated">>
    /\ Len(last.hours) = 2

---------------------------------------------------------------------------
(* Properties of the concurrent writes *)

(* the positions of the records of a machine and calendar day *)
RecordsOn(st, machineId, startTime) ==
    { i \in DOMAIN st : /\ st[i].machineId = machineId
                        /\ UTCMidnight(st[i].startTime) = startTime }

(* a handler that answered success *)
Succeeded(h) ==
    /\ inflight[h].pc = "done"
    /\ inflight[h].status \in {200, 201}

(* C21: in every reachable state, under every interleaving of concurrent
   stoppage submissions and production assignments, the store holds at most
   one ProductionRecord per machine and calendar day: a write for a machine
   and day that has a record never creates a second one. *)
C21_OneRecordPerMachineDay ==
    \A i \in DOMAIN store :
        RecordsOn(store, store[i].machineId, store[i].startTime) = {i}

(* C24: save() stores the handler's own copy of the document: right after a
   handler's save the stored record is that copy, whatever another handler
   stored since this one read it; so of two handlers that read the same
   record and both answer success, the stored record holds the update of
   the later save alone. *)
C24_LastWriteWins ==
    [][\A h \in Handlers :
        (inflight[h].pc \in {"loop", "save"}
            /\ inflight'[h].pc \in {"notify", "emit"})
        => LET index == IF inflight[h].index > 0 THEN inflight[h].index
                        ELSE Len(store')
           IN  store'[index] = inflight'[h].doc]_vars

(* both handlers read the one record of the day, a stoppage of hour 8 and an
   assignment of hour 9; both answered success, and the stored record has
   the slot of hour 9 and not the stoppage *)
C24_Witness ==
    \E h \in Handlers, g \in Handlers :
        /\ Succeeded(h)
        /\ Succeeded(g)
        /\ inflight[h].op = "stoppage"
        /\ inflight[g].op = "assignment"
        /\ inflight[g].req.hour = 9
        /\ inflight[h].index = 1
        /\ inflight[g].index = 1
        /\ Len(store) = 1
        /\ 9 \in SlotHours(store[1])
        /\ AllStoppages(<<inflight[h].doc>>) \ AllStoppages(store) # {}

(* a production assignment for a shift that failed after a turn of its loop
   and before the end of it, the only request so far *)
FailedMidway(h) ==
    /\ inflight[h].pc = "done"
    /\ inflight[h].op = "assignment"
    /\ inflight[h].status = 500
    /\ inflight[h].req.applyToShift
    /\ inflight[h].hours # <<>>
    /\ SlotHours(inflight[h].doc) # {}
    /\ handled = 1

(* C25 as stated: when a production assignment with applyToShift fails
   midway through the hours of the shift, the hours processed before the
   failure are updated in the stored record. *)
C25_EarlierHoursStored ==
    \A h \in Handlers :
        FailedMidway(h) =>
            /\ store # <<>>
            /\ SlotHours(inflight[h].doc)
                    \subseteq SlotHours(RecordOf(store, inflight[h].req))

(* C25, amended: a production assignment that fails before its save() has
   stored nothing: the loop over the hours changes the handler's document
   only, and the one save() follows the loop. *)
C25_FailedBatchStoresNothing ==
    \A h \in Handlers :
        (/\ inflight[h].pc = "done"
         /\ inflight[h].op = "assignment"
         /\ inflight[h].status = 500
         /\ handled = 1) => store = <<>>

C25_Witness ==
    \E h \in Handlers :
        /\ FailedMidway(h)
        /\ inflight[h].hours = <<9>>
        /\ store = <<>>

(* C26: the breakdown notification never blocks or gates the write: once
   the record of a breakdown submission is saved, the event is emitted and
   the caller is answered success, even if the dispatch of the notification
   never settles. *)
C26_BreakdownAnswered ==
    (inflight[1].pc = "notify")
        ~> (/\ inflight[1].pc = "done"
            /\ inflight[1].status = 201
            /\ inflight[1].events = <<"stoppage-added">>)

---------------------------------------------------------------------------
(* Properties of the slots of a record *)

(* the hours of the slots a stored record had before the last request *)
SlotHoursBefore(i) ==
    IF i \in DOMAIN last.before THEN SlotHours(last.before[i]) ELSE {}

(* the hours the last request named: its hour, and for an assignment the
   hours 0..23 of the shift it expands to *)
NamedHours ==
    IF last.op = "assignment"
    THEN {last.req.hour}
            \cup (ReferenceHours(config, last.req.hour, last.req.applyToShift)
                    \cap (0..(HoursPerDay - 1)))
    ELSE {last.req.hour}

(* C22: after any sequence of stoppage submissions and production
   assignments handled one at a time, a record holds at most one slot per
   hour, and every slot a request added is of an hour the request named: its
   hour, or an hour 0..23 of the shift it expands to. *)
C22_OneSlotPerNamedHour ==
    \A i \in DOMAIN store :
        /\ \A j \in DOMAIN store[i].hourlyData :
            \A k \in DOMAIN store[i].hourlyData :
                store[i].hourlyData[j].hour = store[i].hourlyData[k].hour
                    => j = k
        /\ last.op \in {"stoppage", "assignment"}
            => SlotHours(store[i]) \subseteq SlotHoursBefore(i) \cup NamedHours

(* an assignment for the shift of hour 8 after two stoppages of hour 8: the
   record has the slot of the stoppages and the new slot of hour 9 *)
C22_Witness ==
    /\ AssignmentDone
    /\ last.req.applyToShift
    /\ Len(store) = 1
    /\ Len(store[1].hourlyData) = 2
    /\ Len(store[1].hourlyData[1].stoppages) = 2
    /\ SlotHoursBefore(1) = {8}
    /\ SlotHours(store[1]) = {8, 9}

---------------------------------------------------------------------------
(* Properties of the validation of the production assignment *)

(* a string that was sent and is not blank *)
Sent(s) == s # Absent /\ \E i \in DOMAIN s : s[i] \notin WhiteSpace

(* a well-formed reference: 12 characters, or 24 hexadecimal digits *)
WellFormedReference(s) ==
    \/ Len(s) = 12
    \/ Len(s) = 24 /\ \A i \in DOMAIN s : s[i] \in HexChars

KnownUsername(s) == \E u \in UserDirectory : u.username = s

(* C23: a production assignment whose operatorId is neither a well-formed
   reference nor a known username, or whose moldId is not a well-formed
   reference, is answered 400 with the message of the operator when the
   operator is at fault and of the mold otherwise, and writes nothing: the
   store is as before and no event is emitted. *)
C23_InvalidReferenceRejected ==
    last.op = "assignment" =>
        LET badOperator == /\ Sent(last.req.operatorId)
                           /\ ~WellFormedReference(last.req.operatorId)
                           /\ ~KnownUsername(last.req.operatorId)
            badMold == /\ Sent(last.req.moldId)
                       /\ ~WellFormedReference(last.req.moldId)
        IN  (badOperator \/ badMold) =>
                /\ last.status = 400
                /\ last.message = IF badOperator
                                  THEN "Invalid operator specified"
                                  ELSE "Invalid mold ID specified"
                /\ ~last.saved
                /\ store = last.before
                /\ last.events = <<>>

(* an unknown operator with a malformed mold, rejected for the operator,
   the record of the day left as it was *)
C23_Witness ==
    /\ last.op = "assignment"
    /\ last.req.operatorId = Bob
    /\ last.req.moldId = <<"x", "1">>
    /\ last.status = 400
    /\ last.message = "Invalid operator specified"
    /\ store # <<>>
    /\ store = last.before

---------------------------------------------------------------------------
(* Properties of the statistics after assignments *)

(* C27: the quality the statistics report lies between 0 and 100 percent
   for every record set reachable through production assignments, whatever
   defective units were submitted. *)
C27_QualityWithinBounds ==
    StatsRead => (0 <= stats.quality /\ stats.quality <= 100)

---------------------------------------------------------------------------
(* Properties of the classified stoppages *)

(* C28: a stoppage submission only modifies a stoppage that is still
   pending: a stoppage that is classified (isPending false, isClassified
   true) keeps its reason, description, duration, endTime and
   sapNotificationNumber under every later submission, also one that
   repeats the pending reference or targets a slot that holds an
   'unclassified' entry as well. *)
C28_ClassifiedStoppageKept ==
    last.op = "stoppage" =>
        \A old \in AllStoppages(last.before) :
            (old.isClassified /\ ~old.isPending) =>
                \E s \in AllStoppages(store) :
                    /\ s.id = old.id
                    /\ s.reason = old.reason
                    /\ s.description = old.description
                    /\ s.duration = old.duration
                    /\ s.endTime = old.endTime
                    /\ s.sapNotificationNumber = old.sapNotificationNumber

---------------------------------------------------------------------------
(* Properties of the two read projections *)

(* the stoppage minutes the statistics count for one slot *)
StatsMinutes(record, slot) ==
    ComputeStats(<<[record EXCEPT !.hourlyData = <<slot>>]>>,
                 FindMachine(record.machineId)).totalStoppageMinutes

(* the stoppage minutes the timeline shows for the hour of a slot *)
TimelineMinutes(record, slot) == HourEntry(record, slot.hour).stoppageMinutes

(* C29: for every stored slot, after any sequence of stoppage submissions,
   the stoppage minutes the timeline reports (summed from the slot's
   stoppage list at read time) equal those the statistics count (the slot's
   stored stoppageMinutes field). *)
C29_ProjectionsAgree ==
    \A i \in DOMAIN store :
        \A j \in DOMAIN store[i].hourlyData :
            TimelineMinutes(store[i], store[i].hourlyData[j])
                = StatsMinutes(store[i], store[i].hourlyData[j])

---------------------------------------------------------------------------
(* Properties of the hour set *)

(* the hours a shift list names lie in 0..24 *)
ShiftsWithinDay(shifts) ==
    \A k \in DOMAIN shifts :
        /\ HourOf(shifts[k].startTime) \in 0..HoursPerDay
        /\ HourOf(shifts[k].endTime) \in 0..HoursPerDay

(* C30: for every shift list whose start and end hours lie in 0..24 and
   every requested hour in 0..23, with or without applyToShift, the hours a
   production assignment updates contain the requested hour, are all in
   0..23, and are listed in strictly ascending order. *)
C30_HoursOfTheDayAscending ==
    (AssignmentDone /\ ShiftsWithinDay(config)
        /\ last.req.hour \in 0..(HoursPerDay - 1)) =>
        /\ \E i \in DOMAIN last.hours : last.hours[i] = last.req.hour
        /\ \A i \in DOMAIN last.hours : last.hours[i] \in 0..(HoursPerDay - 1)
        /\ \A i \in DOMAIN last.hours :
            \A j \in DOMAIN last.hours : i < j => last.hours[i] < last.hours[j]

(* hour 20 of a shift that ends at 24:00, followed by one that starts at
   24:00: the hours 16..23 *)
C30_Witness ==
    /\ AssignmentDone
    /\ config = EveningAndNight
    /\ last.req.applyToShift
    /\ last.req.hour = 20
    /\ Len(last.hours) = 8
    /\ last.hours[1] = 16
    /\ last.hours[8] = 23

============================================================================
